---- MODULE Spec2Model ----
(***************************************************************************)
(* A model of plasmodesmata: the HTTP/2 frame codec (src/http2), the two   *)
(* byte pumps of the CONNECT tunnel (src/io.rs, and the older copy in      *)
(* src/lib.rs) and the join of the two pumps (src/client.rs,               *)
(* src/server.rs).                                                         *)
(*                                                                         *)
(* Bytes are the integers 0..255.  A u32 is kept as two 16-bit limbs       *)
(* <<hi, lo>> and a u64 as four, because the model checker's integers are  *)
(* 32-bit signed; U24 and U31 values fit and are plain integers.           *)
(***************************************************************************)
EXTENDS Integers, Sequences, FiniteSets, TLC

VARIABLES
    \* ---- frame codec (src/http2/frame.rs)
    overflow_checks, \* build profile: TRUE = arithmetic overflow panics
    src,             \* the BytesMut handed to FrameCodec::decode
    length,          \* FrameCodec.length : Option<U24>
    sent,            \* what was put on the wire, oldest first
    got,             \* every non-None value decode returned, oldest first
    last,            \* value of the latest decode call, Idle after a write
    storage,         \* where src keeps its bytes: "heap" or "inline"
    seen,            \* the header fields and payload the last decode parsed
    panicked,        \* the encoder panicked
    \* ---- copy_to_h2 (TCP -> stream pump)
    variant,         \* "io" (src/io.rs) or "lib" (src/lib.rs)
    B,               \* everything the source will deliver
    input,           \* the part of B not yet read
    rem,             \* buf.remaining_mut(), the free capacity of the buffer
    sendLog,         \* every send_data call, oldest first
    cap,             \* the stream's available send capacity
    counterTo,       \* copy_to_h2's counter
    pcTo,            \* "off" | "reading" | "done" | "failed"
    errTo,           \* the error copy_to_h2 returned, "" when none
    \* ---- copy_from_h2 (stream -> TCP pump)
    chunks,          \* the chunks the stream still has to yield
    allChunks,       \* every chunk of the stream
    written,         \* the bytes the destination accepted
    released,        \* sum of the amounts given to release_capacity
    counterFrom,     \* copy_from_h2's counter
    shutdowns,       \* number of shutdown(dst) calls
    pcFrom,          \* "off" | "receiving" | "done" | "failed"
    errFrom,         \* the error copy_from_h2 returned, "" when none
    \* ---- the tunnel (client_handle / server_handle)
    side,            \* "client" (client_handle) or "server" (server_handle)
    tunnel,          \* "off" | "running" | "ok" | "failed"
    result,          \* what the joined future returned, None while it runs
    \* ---- the event loop and the handlers it has spawned (client / server)
    role,            \* "client" (client.rs) or "server" (server.rs)
    process,         \* "running", or "panicked" once a panic left lp.run
    handlers,        \* one record per connection (client) or stream (server)
    \* ---- the connection pool (pool.rs)
    deque,           \* PoolHandle.pool: the pooled connections, front first
    conns,           \* every connection dialed: its state and whether the driver polled it
    task,            \* PoolHandle.task holds the driver's task
    notified,        \* task.notify() was called since the driver last ran
    dispatches,      \* one record per PoolHandle::request future
    pass,            \* the H2ClientPool::poll that just ran: deque before, connections polled
    handle,          \* a PoolHandle clone is held outside the pool future and the dispatches
    driver           \* "live", or "done" once H2ClientPool::poll returned Ready

codecVars == <<overflow_checks, src, length, sent, got, last, storage, seen, panicked>>
toVars == <<variant, B, input, rem, sendLog, cap, counterTo, pcTo, errTo>>
fromVars == <<chunks, allChunks, written, released, counterFrom, shutdowns, pcFrom, errFrom>>
tunnelVars == <<side, tunnel, result>>
handleVars == <<role, process, handlers>>
driverVars == <<handle, driver>>
poolVars == <<deque, conns, task, notified, dispatches, pass, driverVars>>
vars == <<codecVars, toVars, fromVars, tunnelVars, handleVars, poolVars>>

(***************************************************************************)
(* Bounds of the model.                                                    *)
(***************************************************************************)
MaxFrames == 2      \* frames encoded back to back onto one wire
MaxBody == 2        \* longest sampled body / header block / debug data
MaxRawLen == 9      \* longest payload of a hand-made frame
MaxInput == 3       \* longest short source input, and overshoot of a long one
MaxRead == 2        \* largest short read
MaxSmallReads == 3  \* short reads before the source delivers all it can
MaxChunks == 2      \* chunks a stream yields
MaxChunkLen == 2    \* longest chunk
MaxCap == 2         \* send capacity the peer grants in all
MaxHandlers == 3    \* connections (client) or streams (server) the loop handles
MaxDispatches == 3  \* PoolHandle::request futures at a time, and connections dialed in all

(***************************************************************************)
(* Option / Result values.                                                 *)
(***************************************************************************)
None == [tag |-> "None"]
Some(x) == [tag |-> "Some", val |-> x]
Err(code) == [tag |-> "Err", code |-> code]
Ok(x) == [tag |-> "Ok", val |-> x]
Idle == [tag |-> "Idle"]

IsSome(o) == o.tag = "Some"
UnwrapOrDefault(o) == IF o.tag = "Some" THEN o.val ELSE 0

Byte == 0..255
Take(s, n) == SubSeq(s, 1, n)
Drop(s, n) == SubSeq(s, n + 1, Len(s))
Zeros(n) == [i \in 1..n |-> 0]
Min(a, b) == IF a < b THEN a ELSE b

(***************************************************************************)
(* src/http2/uint.rs                                                       *)
(***************************************************************************)
U24_MAX == 16777215
U24_INITIAL == 16384
U31_MAX == 2147483647

\* BigEndian::read_u32 / put_u32 on the limb form of a u32
ReadU32(b) == <<b[1] * 256 + b[2], b[3] * 256 + b[4]>>
PutU32(v) == <<v[1] \div 256, v[1] % 256, v[2] \div 256, v[2] % 256>>
ReadU16(b) == b[1] * 256 + b[2]
PutU16(n) == <<n \div 256, n % 256>>
ReadU64(b) == <<b[1] * 256 + b[2], b[3] * 256 + b[4], b[5] * 256 + b[6], b[7] * 256 + b[8]>>
PutU64(v) == PutU16(v[1]) \o PutU16(v[2]) \o PutU16(v[3]) \o PutU16(v[4])
\* a value below 2^31 as a u32
AsU32(n) == <<n \div 65536, n % 65536>>
U32Gt(v, n) == v[1] > n \div 65536 \/ (v[1] = n \div 65536 /\ v[2] > n % 65536)
U32Lt(v, n) == v[1] < n \div 65536 \/ (v[1] = n \div 65536 /\ v[2] < n % 65536)
U32Zero == <<0, 0>>

\* impl From<u32> for U31 / U24: saturate at max_value()
U31From(v) == IF U32Gt(v, U31_MAX) THEN U31_MAX ELSE v[1] * 65536 + v[2]
U24From(v) == IF U32Gt(v, U24_MAX) THEN U24_MAX ELSE v[1] * 65536 + v[2]

\* impl From<&[u8; 4]> for U31: read_u32 & 0x7fffffff
U31FromBytes(b) == (b[1] % 128) * 16777216 + b[2] * 65536 + b[3] * 256 + b[4]
\* impl From<&[u8; 3]> for U24
U24FromBytes(b) == b[1] * 65536 + b[2] * 256 + b[3]

\* Both decoders read the bytes through
\*     tmp = unsafe { &*(&src.split_to(n) as &[u8] as *const [u8] as *const [u8; n]) }
\* a pointer into the temporary that split_to returned, which is dropped at
\* the end of that statement.  When src keeps its bytes on the heap the
\* pointer still points at them.  When src keeps them inline (a BytesMut of at
\* most INLINE_CAP bytes made from a slice or with a small capacity) the bytes
\* were in the temporary itself and the read that follows is of a dead stack
\* slot: it finds the bytes still there or whatever the build put there since.
\* `stale` is what it finds: <<>> for the bytes as they were, <<v>> for a slot
\* that now holds v in every byte.
INLINE_CAP == 31
StaleReads == {<<>>, <<0>>, <<255>>}
Found(bytes, stale) == IF stale = <<>> THEN bytes ELSE [i \in 1..Len(bytes) |-> stale[1]]
ReadsFrom(store) == IF store = "inline" THEN StaleReads ELSE {<<>>}

\* U31Codec::decode: None below 4 bytes, else (top bit, low 31 bits) and 4 bytes eaten
U31Decode(s, stale) ==
    IF Len(s) < 4 THEN [item |-> None, rest |-> s]
    ELSE LET tmp == Found(Take(s, 4), stale) IN
         [item |-> Some([b |-> (tmp[1] \div 128) % 2 = 1, n |-> U31FromBytes(tmp)]),
          rest |-> Drop(s, 4)]

\* U31Codec::encode: the value, with 0x80000000 or'd in when the bool is set
U31Encode(b, n) ==
    <<(n \div 16777216) + (IF b THEN 128 ELSE 0), (n \div 65536) % 256,
      (n \div 256) % 256, n % 256>>

\* U24Codec::decode: None below 3 bytes, else the value and 3 bytes eaten
U24Decode(s, stale) ==
    IF Len(s) < 3 THEN [item |-> None, rest |-> s]
    ELSE [item |-> Some(U24FromBytes(Found(Take(s, 3), stale))), rest |-> Drop(s, 3)]

\* U24Codec::encode: the low three bytes of the big-endian u32
U24Encode(n) == <<(n \div 65536) % 256, (n \div 256) % 256, n % 256>>

(***************************************************************************)
(* src/http2/error.rs                                                      *)
(***************************************************************************)
ErrorCodeNames ==
    <<"NoError", "ProtocolError", "InternalError", "FlowControlError",
      "SettingsTimeout", "StreamClosed", "FrameSizeError", "RefusedStream",
      "Cancel", "CompressionError", "ConnectError", "EnhanceYourCalm",
      "InadequateSecurity", "Http11Required">>

ErrorCode(name) == [name |-> name]
UnknownErrorCode(c) == [name |-> "Unknown", code |-> c]
NumErrorCodes == Len(ErrorCodeNames)

\* ErrorCodeCodec::decode on the 4 bytes of a code
ErrorCodeDecode(b) ==
    LET code == ReadU32(b) IN
    IF code[1] = 0 /\ code[2] < NumErrorCodes
    THEN ErrorCode(ErrorCodeNames[code[2] + 1])
    ELSE UnknownErrorCode(code)

\* ErrorCodeCodec::encode
ErrorCodeEncode(e) ==
    IF e.name = "Unknown" THEN PutU32(e.code)
    ELSE PutU32(<<0, (CHOOSE i \in 1..NumErrorCodes : ErrorCodeNames[i] = e.name) - 1>>)

(***************************************************************************)
(* src/http2/frame.rs: Setting and SettingCodec                            *)
(***************************************************************************)
\* HeaderTableSize, MaxConcurrentStreams, MaxHeaderListSize carry a u32 (v),
\* EnablePush a bool (on), InitialWindowSize a U31 and MaxFrameSize a U24 (n)
SettingU32(kind, v) == [kind |-> kind, v |-> v]
SettingBool(kind, on) == [kind |-> kind, on |-> on]
SettingInt(kind, n) == [kind |-> kind, n |-> n]
UnknownSetting(id, v) == [kind |-> "Unknown", id |-> id, v |-> v]

\* a SettingCodec::decode whose MAX_FRAME_SIZE arm checks only the upper limit
SettingDecode_NoLowerLimit(b) ==
    LET setting_id == ReadU16(Take(b, 2))
        setting_value == ReadU32(SubSeq(b, 3, 6))
    IN  CASE setting_id = 1 -> Ok(SettingU32("HeaderTableSize", setting_value))
          [] setting_id = 2 -> Ok(SettingBool("EnablePush", setting_value # U32Zero))
          [] setting_id = 3 -> Ok(SettingU32("MaxConcurrentStreams", setting_value))
          [] setting_id = 4 ->
                IF U32Gt(setting_value, U31_MAX) THEN Err("ProtocolError")
                ELSE Ok(SettingInt("InitialWindowSize", U31From(setting_value)))
          [] setting_id = 5 ->
                IF U32Gt(setting_value, U24_MAX)
                THEN Err("ProtocolError")
                ELSE Ok(SettingInt("MaxFrameSize", U24From(setting_value)))
          [] setting_id = 6 -> Ok(SettingU32("MaxHeaderListSize", setting_value))
          [] OTHER -> Ok(UnknownSetting(setting_id, setting_value))

\* SettingCodec::decode on the 6 bytes of one setting
SettingDecode(b) ==
    LET setting_id == ReadU16(Take(b, 2))
        setting_value == ReadU32(SubSeq(b, 3, 6))
    IN  CASE setting_id = 1 -> Ok(SettingU32("HeaderTableSize", setting_value))
          [] setting_id = 2 -> Ok(SettingBool("EnablePush", setting_value # U32Zero))
          [] setting_id = 3 -> Ok(SettingU32("MaxConcurrentStreams", setting_value))
          [] setting_id = 4 ->
                IF U32Gt(setting_value, U31_MAX) THEN Err("ProtocolError")
                ELSE Ok(SettingInt("InitialWindowSize", U31From(setting_value)))
          [] setting_id = 5 ->
                IF U32Lt(setting_value, U24_INITIAL) \/ U32Gt(setting_value, U24_MAX)
                THEN Err("ProtocolError")
                ELSE Ok(SettingInt("MaxFrameSize", U24From(setting_value)))
          [] setting_id = 6 -> Ok(SettingU32("MaxHeaderListSize", setting_value))
          [] OTHER -> Ok(UnknownSetting(setting_id, setting_value))

\* a SettingCodec::encode that writes every unknown setting under id 0
SettingEncode_UnknownAsZero(s) ==
    CASE s.kind = "HeaderTableSize" -> PutU16(1) \o PutU32(s.v)
      [] s.kind = "EnablePush" -> PutU16(2) \o PutU32(IF s.on THEN <<0, 1>> ELSE <<0, 0>>)
      [] s.kind = "MaxConcurrentStreams" -> PutU16(3) \o PutU32(s.v)
      [] s.kind = "InitialWindowSize" -> PutU16(4) \o PutU32(AsU32(s.n))
      [] s.kind = "MaxFrameSize" -> PutU16(5) \o PutU32(AsU32(s.n))
      [] s.kind = "MaxHeaderListSize" -> PutU16(6) \o PutU32(s.v)
      [] s.kind = "Unknown" -> PutU16(0) \o PutU32(s.v)

\* SettingCodec::encode
SettingEncode(s) ==
    CASE s.kind = "HeaderTableSize" -> PutU16(1) \o PutU32(s.v)
      [] s.kind = "EnablePush" -> PutU16(2) \o PutU32(IF s.on THEN <<0, 1>> ELSE <<0, 0>>)
      [] s.kind = "MaxConcurrentStreams" -> PutU16(3) \o PutU32(s.v)
      [] s.kind = "InitialWindowSize" -> PutU16(4) \o PutU32(AsU32(s.n))
      [] s.kind = "MaxFrameSize" -> PutU16(5) \o PutU32(AsU32(s.n))
      [] s.kind = "MaxHeaderListSize" -> PutU16(6) \o PutU32(s.v)
      [] s.kind = "Unknown" -> PutU16(s.id) \o PutU32(s.v)

\* a loop that pushes each setting at the front of the vector
RECURSIVE DecodeSettings_Reversed(_, _)
DecodeSettings_Reversed(payload, n) ==
    IF n = 0 THEN Ok(<<>>)
    ELSE LET first == SettingDecode(Take(payload, 6)) IN
         IF first.tag = "Err" THEN first
         ELSE LET others == DecodeSettings_Reversed(Drop(payload, 6), n - 1) IN
              IF others.tag = "Err" THEN others
              ELSE Ok(others.val \o <<first.val>>)

\* the loop of the SETTINGS arm: decode n settings, stop at the first error
RECURSIVE DecodeSettings(_, _)
DecodeSettings(payload, n) ==
    IF n = 0 THEN Ok(<<>>)
    ELSE LET first == SettingDecode(Take(payload, 6)) IN
         IF first.tag = "Err" THEN first
         ELSE LET others == DecodeSettings(Drop(payload, 6), n - 1) IN
              IF others.tag = "Err" THEN others
              ELSE Ok(<<first.val>> \o others.val)

RECURSIVE EncodeSettings(_)
EncodeSettings(settings) ==
    IF settings = <<>> THEN <<>>
    ELSE SettingEncode(Head(settings)) \o EncodeSettings(Tail(settings))

(***************************************************************************)
(* src/http2/frame.rs: FrameCodec                                          *)
(***************************************************************************)
HasFlag(flags, bit) == (flags \div bit) % 2 = 1
Flag(cond, bit) == IF cond THEN bit ELSE 0

\* an eat_padding that removes the bytes after the pad-length byte instead of
\* the trailing ones
eat_padding_Leading(payload) ==
    IF Len(payload) < 1 THEN Err("FrameSizeError")
    ELSE LET len == payload[1]
             rest == Drop(payload, 1)
         IN  IF Len(rest) <= len THEN Err("ProtocolError")
             ELSE Ok([length |-> len, payload |-> Drop(rest, len)])

\* eat_padding: the pad-length byte and that many trailing bytes are removed
eat_padding(payload) ==
    IF Len(payload) < 1 THEN Err("FrameSizeError")
    ELSE LET len == payload[1]
             rest == Drop(payload, 1)
         IN  IF Len(rest) <= len THEN Err("ProtocolError")
             ELSE Ok([length |-> len, payload |-> Take(rest, Len(rest) - len)])

\* the `if flags & 0x8 != 0 { eat_padding(..)? ; Some(length) } else { None }` step
Unpad(flags, payload) ==
    IF HasFlag(flags, 8)
    THEN LET r == eat_padding(payload) IN
         IF r.tag = "Err" THEN r
         ELSE Ok([pad_length |-> Some(r.val.length), payload |-> r.val.payload])
    ELSE Ok([pad_length |-> None, payload |-> payload])

DecodeData(flags, identifier, payload) ==
    IF identifier = 0 THEN Err("ProtocolError")
    ELSE LET u == Unpad(flags, payload) IN
         IF u.tag = "Err" THEN u
         ELSE Ok([type |-> "Data", identifier |-> identifier,
                  end_stream |-> HasFlag(flags, 1),
                  pad_length |-> u.val.pad_length, data |-> u.val.payload])

DecodeHeaders(flags, identifier, payload, stale) ==
    IF identifier = 0 THEN Err("ProtocolError")
    ELSE LET u == Unpad(flags, payload) IN
         IF u.tag = "Err" THEN u
         ELSE LET p == u.val.payload IN
              IF HasFlag(flags, 32) /\ Len(p) < 5 THEN Err("FrameSizeError")
              ELSE LET dep == U31Decode(p, stale).item.val
                       prio == HasFlag(flags, 32)
                   IN  Ok([type |-> "Headers", identifier |-> identifier,
                           end_stream |-> HasFlag(flags, 1),
                           end_headers |-> HasFlag(flags, 4),
                           pad_length |-> u.val.pad_length,
                           e |-> IF prio THEN Some(dep.b) ELSE None,
                           stream_dpendency |-> IF prio THEN Some(dep.n) ELSE None,
                           weight |-> IF prio THEN Some(p[5]) ELSE None,
                           header_block_fragment |-> IF prio THEN Drop(p, 5) ELSE p])

DecodePriority(flags, identifier, payload, stale) ==
    IF identifier = 0 THEN Err("ProtocolError")
    ELSE IF Len(payload) # 5 THEN Err("FrameSizeError")
    ELSE LET dep == U31Decode(payload, stale) IN
         Ok([type |-> "Priority", identifier |-> identifier, e |-> dep.item.val.b,
             stream_dpendency |-> dep.item.val.n, weight |-> dep.rest[1]])

DecodeRstStream(flags, identifier, payload) ==
    IF identifier = 0 THEN Err("ProtocolError")
    ELSE IF Len(payload) # 4 THEN Err("FrameSizeError")
    ELSE Ok([type |-> "RstStream", identifier |-> identifier,
             error_code |-> ErrorCodeDecode(payload)])

\* a SETTINGS arm that checks the payload size before the stream identifier
DecodeSettingsFrame_SizeFirst(flags, identifier, payload) ==
    IF Len(payload) % 6 # 0 THEN Err("FrameSizeError")
    ELSE IF identifier # 0 THEN Err("ProtocolError")
    ELSE LET ack == HasFlag(flags, 1) IN
         IF ack /\ payload # <<>> THEN Err("FrameSizeError")
         ELSE LET settings == DecodeSettings(payload, Len(payload) \div 6) IN
              IF settings.tag = "Err" THEN settings
              ELSE Ok([type |-> "Settings", ack |-> ack, settings |-> settings.val])

DecodeSettingsFrame(flags, identifier, payload) ==
    IF identifier # 0 THEN Err("ProtocolError")
    ELSE IF Len(payload) % 6 # 0 THEN Err("FrameSizeError")
    ELSE LET ack == HasFlag(flags, 1) IN
         IF ack /\ payload # <<>> THEN Err("FrameSizeError")
         ELSE LET settings == DecodeSettings(payload, Len(payload) \div 6) IN
              IF settings.tag = "Err" THEN settings
              ELSE Ok([type |-> "Settings", ack |-> ack, settings |-> settings.val])

DecodePushPromise(flags, identifier, payload, stale) ==
    IF identifier = 0 THEN Err("ProtocolError")
    ELSE LET u == Unpad(flags, payload) IN
         IF u.tag = "Err" THEN u
         ELSE LET p == u.val.payload IN
              IF Len(p) < 4 THEN Err("FrameSizeError")
              ELSE Ok([type |-> "PushPromise", identifier |-> identifier,
                       end_headers |-> HasFlag(flags, 4),
                       pad_length |-> u.val.pad_length,
                       promised_stream_id |-> U31Decode(p, stale).item.val.n,
                       header_block_fragment |-> Drop(p, 4)])

DecodePing(flags, identifier, payload) ==
    IF identifier # 0 THEN Err("ProtocolError")
    ELSE IF Len(payload) # 8 THEN Err("FrameSizeError")
    ELSE Ok([type |-> "Ping", ack |-> HasFlag(flags, 1), opaque_data |-> ReadU64(payload)])

DecodeGoaway(flags, identifier, payload, stale) ==
    IF identifier # 0 THEN Err("ProtocolError")
    ELSE IF Len(payload) < 8 THEN Err("FrameSizeError")
    ELSE Ok([type |-> "Goaway", last_stream_id |-> U31Decode(payload, stale).item.val.n,
             error_code |-> ErrorCodeDecode(SubSeq(payload, 5, 8)),
             additional_debug_data |-> Drop(payload, 8)])

DecodeWindowUpdate(flags, identifier, payload, stale) ==
    IF Len(payload) # 4 THEN Err("FrameSizeError")
    ELSE LET window_size_increment == U31Decode(payload, stale).item.val.n IN
         IF window_size_increment = 0 THEN Err("ProtocolError")
         ELSE Ok([type |-> "WindowUpdate", identifier |-> identifier,
                  window_size_increment |-> window_size_increment])

DecodeContinuation(flags, identifier, payload) ==
    IF identifier = 0 THEN Err("ProtocolError")
    ELSE Ok([type |-> "Continuation", identifier |-> identifier,
             end_headers |-> HasFlag(flags, 4), header_block_fragment |-> payload])

\* the `match frame_type` of FrameCodec::decode
DecodePayload(frame_type, flags, identifier, payload, stale) ==
    CASE frame_type = 0 -> DecodeData(flags, identifier, payload)
      [] frame_type = 1 -> DecodeHeaders(flags, identifier, payload, stale)
      [] frame_type = 2 -> DecodePriority(flags, identifier, payload, stale)
      [] frame_type = 3 -> DecodeRstStream(flags, identifier, payload)
      [] frame_type = 4 -> DecodeSettingsFrame(flags, identifier, payload)
      [] frame_type = 5 -> DecodePushPromise(flags, identifier, payload, stale)
      [] frame_type = 6 -> DecodePing(flags, identifier, payload)
      [] frame_type = 7 -> DecodeGoaway(flags, identifier, payload, stale)
      [] frame_type = 8 -> DecodeWindowUpdate(flags, identifier, payload, stale)
      [] frame_type = 9 -> DecodeContinuation(flags, identifier, payload)
      [] OTHER -> Ok([type |-> "Unknown", identifier |-> identifier, kind |-> frame_type,
                      flags |-> flags, payload |-> payload])

\* what FrameCodec::decode leaves in self.length when it returns
LengthAfterDecode(payload_length, returned) == Some(payload_length)

\* what the three kinds of read through a dropped temporary find during one
\* call of FrameCodec::decode: the length field, the stream identifier, and
\* the U31 inside the payload (stream dependency, promised stream id, last
\* stream id, window size increment)
Stale(store) == [len : ReadsFrom(store), id : ReadsFrom(store), inner : ReadsFrom(store)]

\* FrameCodec::decode(&mut self, src): the value returned, self.length and src
\* after, and the header fields and payload the call parsed (None when it
\* returned before parsing them)
\* a decode that takes the type and flags bytes before it tests the length
Waiting_HeaderEaten(payload_length, s) ==
    [ret |-> None, length |-> Some(payload_length), src |-> Drop(s, Min(2, Len(s))),
     seen |-> None]

\* the return at `if src.len() < 6 + payload_length`: None, with the length
\* kept in self.length and s, what follows the length field, left in src
Waiting(payload_length, s) ==
    [ret |-> None, length |-> Some(payload_length), src |-> s, seen |-> None]

FrameDecode(len0, src0, st) ==
    LET u24 == IF len0 = None THEN U24Decode(src0, st.len) ELSE [item |-> len0, rest |-> src0] IN
    IF u24.item = None THEN [ret |-> None, length |-> None, src |-> src0, seen |-> None]
    ELSE LET payload_length == u24.item.val
             s == u24.rest
         IN  IF Len(s) < 6 + payload_length
             THEN Waiting(payload_length, s)
             ELSE LET frame_type == s[1]
                      flags == s[2]
                      identifier == U31Decode(SubSeq(s, 3, 6), st.id).item.val.n
                      payload == SubSeq(s, 7, 6 + payload_length)
                      r == DecodePayload(frame_type, flags, identifier, payload, st.inner)
                  IN  [ret |-> IF r.tag = "Err" THEN r ELSE Some(r.val),
                       length |-> LengthAfterDecode(payload_length, r),
                       src |-> Drop(s, 6 + payload_length),
                       seen |-> Some([frame_type |-> frame_type, flags |-> flags,
                                      identifier |-> identifier, payload |-> payload])]

\* `pad_length.map(|x| x + 1)` on a u8: 255 + 1 panics when the build checks
\* arithmetic overflow and wraps to 0 when it does not
PadPlusOne(pad_length, checks) ==
    IF pad_length = None THEN Ok(None)
    ELSE IF pad_length.val + 1 > 255
         THEN (IF checks THEN Err("overflow") ELSE Ok(Some((pad_length.val + 1) % 256)))
         ELSE Ok(Some(pad_length.val + 1))

PadByte(pad_length) == IF pad_length = None THEN <<>> ELSE <<pad_length.val>>
Padding(pad_length) == Zeros(UnwrapOrDefault(pad_length))

\* the 9-byte header: length, type, flags, R + identifier
Header(len, frame_type, flags, identifier) ==
    U24Encode(U24From(AsU32(len))) \o <<frame_type, flags>> \o U31Encode(FALSE, identifier)

EncodeData(f, checks) ==
    LET plus == PadPlusOne(f.pad_length, checks) IN
    IF plus.tag = "Err" THEN plus
    ELSE Ok(Header(UnwrapOrDefault(plus.val) + Len(f.data), 0,
                   Flag(f.end_stream, 1) + Flag(IsSome(f.pad_length), 8), f.identifier)
            \o PadByte(f.pad_length) \o f.data \o Padding(f.pad_length))

EncodeHeaders(f, checks) ==
    IF ~(IsSome(f.e) = IsSome(f.stream_dpendency) /\ IsSome(f.e) = IsSome(f.weight))
    THEN Err("assert")
    ELSE LET plus == PadPlusOne(f.pad_length, checks) IN
         IF plus.tag = "Err" THEN plus
         ELSE Ok(Header(UnwrapOrDefault(plus.val) + (IF IsSome(f.e) THEN 4 + 1 ELSE 0)
                            + Len(f.header_block_fragment), 1,
                        Flag(f.end_stream, 1) + Flag(f.end_headers, 4)
                            + Flag(IsSome(f.pad_length), 8) + Flag(IsSome(f.e), 32),
                        f.identifier)
                 \o PadByte(f.pad_length)
                 \o (IF IsSome(f.e)
                     THEN U31Encode(f.e.val, f.stream_dpendency.val) \o <<f.weight.val>>
                     ELSE <<>>)
                 \o f.header_block_fragment \o Padding(f.pad_length))

EncodePushPromise(f, checks) ==
    LET plus == PadPlusOne(f.pad_length, checks) IN
    IF plus.tag = "Err" THEN plus
    ELSE Ok(Header(UnwrapOrDefault(plus.val) + 4 + Len(f.header_block_fragment), 5,
                   Flag(f.end_headers, 4) + Flag(IsSome(f.pad_length), 8), f.identifier)
            \o PadByte(f.pad_length) \o U31Encode(FALSE, f.promised_stream_id)
            \o f.header_block_fragment \o Padding(f.pad_length))

\* FrameCodec::encode: Ok(the bytes appended to dst) or Err(why it panicked)
FrameEncode(f, checks) ==
    CASE f.type = "Data" -> EncodeData(f, checks)
      [] f.type = "Headers" -> EncodeHeaders(f, checks)
      [] f.type = "Priority" ->
            Ok(Header(5, 2, 0, f.identifier) \o U31Encode(f.e, f.stream_dpendency)
               \o <<f.weight>>)
      [] f.type = "RstStream" ->
            Ok(Header(4, 3, 0, f.identifier) \o ErrorCodeEncode(f.error_code))
      [] f.type = "Settings" ->
            IF f.ack /\ f.settings # <<>> THEN Err("assert")
            ELSE Ok(Header(Len(f.settings) * 6, 4, Flag(f.ack, 1), 0)
                    \o EncodeSettings(f.settings))
      [] f.type = "PushPromise" -> EncodePushPromise(f, checks)
      [] f.type = "Ping" ->
            Ok(Header(8, 6, Flag(f.ack, 1), 0) \o PutU64(f.opaque_data))
      [] f.type = "Goaway" ->
            Ok(Header(4 + 4 + Len(f.additional_debug_data), 7, 0, 0)
               \o U31Encode(FALSE, f.last_stream_id) \o ErrorCodeEncode(f.error_code)
               \o f.additional_debug_data)
      [] f.type = "WindowUpdate" ->
            Ok(Header(4, 8, 0, f.identifier) \o U31Encode(FALSE, f.window_size_increment))
      [] f.type = "Continuation" ->
            Ok(Header(Len(f.header_block_fragment), 9, Flag(f.end_headers, 4), f.identifier)
               \o f.header_block_fragment)
      [] f.type = "Unknown" ->
            Ok(Header(Len(f.payload), f.kind, f.flags, f.identifier) \o f.payload)

(***************************************************************************)
(* Sampled inputs of the codec.                                            *)
(***************************************************************************)
Bodies == {[i \in 1..n |-> 9 + i] : n \in 0..MaxBody}
SampleIds == {1, U31_MAX}
SamplePads == {None} \cup {Some(n) : n \in {0, 1, 2, 254, 255}}
SamplePriorities ==
    {[e |-> None, stream_dpendency |-> None, weight |-> None],
     [e |-> Some(FALSE), stream_dpendency |-> Some(5), weight |-> Some(3)],
     [e |-> Some(TRUE), stream_dpendency |-> Some(U31_MAX), weight |-> Some(255)]}
SampleErrorCodes ==
    {ErrorCode(ErrorCodeNames[i]) : i \in 1..NumErrorCodes}
        \cup {UnknownErrorCode(<<0, 14>>), UnknownErrorCode(<<65535, 65535>>)}
SampleSettings ==
    {SettingU32("HeaderTableSize", <<0, 0>>), SettingU32("HeaderTableSize", <<65535, 65535>>),
     SettingBool("EnablePush", TRUE), SettingBool("EnablePush", FALSE),
     SettingU32("MaxConcurrentStreams", <<0, 100>>),
     SettingInt("InitialWindowSize", U31_MAX), SettingInt("MaxFrameSize", U24_INITIAL),
     SettingU32("MaxHeaderListSize", <<1, 0>>), UnknownSetting(7, <<0, 1>>)}

\* a padded frame is valid when its pad length is below what follows the pad-length
\* byte, which is the body and the padding: the body of a padded frame is not empty
PadFits(pad, body) == pad = None \/ body # <<>>

DataFrames ==
    {f \in {[type |-> "Data", identifier |-> id, end_stream |-> es, pad_length |-> pad,
             data |-> d] :
                id \in SampleIds, es \in BOOLEAN, pad \in SamplePads, d \in Bodies} :
        PadFits(f.pad_length, f.data)}
HeadersFrames ==
    {f \in {[type |-> "Headers", identifier |-> id, end_stream |-> fl[1],
             end_headers |-> fl[2], pad_length |-> pad, e |-> pr.e,
             stream_dpendency |-> pr.stream_dpendency, weight |-> pr.weight,
             header_block_fragment |-> d] :
                id \in SampleIds, fl \in BOOLEAN \X BOOLEAN, pad \in SamplePads,
                pr \in SamplePriorities, d \in Bodies} :
        IsSome(f.e) \/ PadFits(f.pad_length, f.header_block_fragment)}
PriorityFrames ==
    {[type |-> "Priority", identifier |-> id, e |-> e, stream_dpendency |-> dep, weight |-> w] :
        id \in SampleIds, e \in BOOLEAN, dep \in {0, 5}, w \in {0, 255}}
RstStreamFrames ==
    {[type |-> "RstStream", identifier |-> id, error_code |-> c] :
        id \in SampleIds, c \in SampleErrorCodes}
SettingsFrames ==
    {[type |-> "Settings", ack |-> TRUE, settings |-> <<>>],
     [type |-> "Settings", ack |-> FALSE, settings |-> <<>>]}
        \cup {[type |-> "Settings", ack |-> FALSE, settings |-> <<s>>] : s \in SampleSettings}
        \cup {[type |-> "Settings", ack |-> FALSE, settings |-> <<s, t>>] :
                s \in SampleSettings, t \in SampleSettings}
PushPromiseFrames ==
    {[type |-> "PushPromise", identifier |-> id, end_headers |-> eh, pad_length |-> pad,
      promised_stream_id |-> pid, header_block_fragment |-> d] :
        id \in SampleIds, eh \in BOOLEAN, pad \in SamplePads, pid \in {2, U31_MAX},
        d \in Bodies}
PingFrames ==
    {[type |-> "Ping", ack |-> a, opaque_data |-> o] :
        a \in BOOLEAN, o \in {<<2827, 2827, 2827, 2827>>, <<65535, 0, 1, 258>>}}
GoawayFrames ==
    {[type |-> "Goaway", last_stream_id |-> id, error_code |-> c,
      additional_debug_data |-> d] :
        id \in {0, 5}, c \in {ErrorCode("NoError"), ErrorCode("Cancel"),
                              UnknownErrorCode(<<1, 0>>)}, d \in Bodies}
WindowUpdateFrames ==
    {[type |-> "WindowUpdate", identifier |-> id, window_size_increment |-> n] :
        id \in {0, 1}, n \in {6, U31_MAX}}
ContinuationFrames ==
    {[type |-> "Continuation", identifier |-> id, end_headers |-> eh,
      header_block_fragment |-> d] : id \in SampleIds, eh \in BOOLEAN, d \in Bodies}
UnknownFrames ==
    {[type |-> "Unknown", identifier |-> id, kind |-> k, flags |-> fl, payload |-> d] :
        id \in {0, 1}, k \in {10, 255}, fl \in {0, 4, 255}, d \in Bodies}

\* the valid frames a single encode / decode round trip is tried on
Frames ==
    DataFrames \cup HeadersFrames \cup PriorityFrames \cup RstStreamFrames
        \cup SettingsFrames \cup PushPromiseFrames \cup PingFrames \cup GoawayFrames
        \cup WindowUpdateFrames \cup ContinuationFrames \cup UnknownFrames

\* the frames of a stream of several frames
StreamFrames ==
    {[type |-> "Data", identifier |-> 1, end_stream |-> FALSE, pad_length |-> None,
      data |-> <<10>>],
     [type |-> "Data", identifier |-> 1, end_stream |-> TRUE, pad_length |-> Some(2),
      data |-> <<10, 11>>],
     [type |-> "Settings", ack |-> TRUE, settings |-> <<>>],
     [type |-> "Ping", ack |-> FALSE, opaque_data |-> <<2827, 2827, 2827, 2827>>],
     [type |-> "WindowUpdate", identifier |-> 0, window_size_increment |-> 6],
     [type |-> "Unknown", identifier |-> 1, kind |-> 10, flags |-> 4, payload |-> <<10>>]}

\* hand-made frames: any type, flags, reserved bit, identifier and payload, with a
\* length field that matches the payload
RawFrames ==
    {[type |-> "Raw", frame_type |-> t, flags |-> fl, r |-> id[1], identifier |-> id[2],
      payload |-> [i \in 1..n |-> fill]] :
        t \in 0..10, fl \in {0, 1, 8, 9, 32, 40, 255},
        id \in BOOLEAN \X {0, 1, U31_MAX}, n \in 0..MaxRawLen, fill \in {0, 1, 255}}

\* hand-made padded frames: a pad-length byte followed by bytes that all differ
Numbered(k) == [i \in 1..k |-> 10 + i]
PaddedPayloads ==
    {<<>>} \cup {<<p>> \o Numbered(k) : p \in {0, 1, 2, 5, 255}, k \in 0..(MaxRawLen - 1)}
PaddedRawFrames ==
    {[type |-> "Raw", frame_type |-> t, flags |-> fl, r |-> FALSE, identifier |-> 1,
      payload |-> pl] :
        t \in {0, 1, 5}, fl \in {8, 9, 12, 40}, pl \in PaddedPayloads}

\* hand-made SETTINGS frames: every sampled id with values at and around the
\* limits of the range checks, pairs of settings, and payloads cut short
SampleSettingIds == {0, 1, 2, 3, 4, 5, 6, 7, 65535}
SampleSettingValues ==
    {<<0, 0>>, <<0, 1>>, <<0, 2>>, <<0, 16383>>, <<0, 16384>>, <<255, 65535>>,
     <<256, 0>>, <<32767, 65535>>, <<32768, 0>>, <<65535, 65535>>}
SettingWire(id, v) == PutU16(id) \o PutU32(v)
SettingWires == {SettingWire(id, v) : id \in SampleSettingIds, v \in SampleSettingValues}
PairWires ==
    {SettingWire(1, <<0, 1>>), SettingWire(3, <<0, 2>>), SettingWire(5, <<0, 0>>),
     SettingWire(4, <<32767, 65535>>)}
SettingsPayloads ==
    {<<>>} \cup SettingWires \cup {a \o b : a \in PairWires, b \in PairWires}
        \cup {Take(a \o b, 11) : a \in PairWires, b \in PairWires}
SettingsRawFrames ==
    {[type |-> "Raw", frame_type |-> 4, flags |-> fl, r |-> FALSE, identifier |-> 0,
      payload |-> pl] : fl \in {0, 1}, pl \in SettingsPayloads}

\* hand-made WINDOW_UPDATE frames on the connection and on a stream: increments
\* 0 and 1, the largest one, each with the reserved bit clear and set, and
\* payloads that are not four bytes long
WindowUpdatePayloads ==
    {<<0, 0, 0, 0>>, <<128, 0, 0, 0>>, <<0, 0, 0, 1>>, <<128, 0, 0, 1>>,
     <<127, 255, 255, 255>>, <<>>, <<0, 0, 1>>, <<0, 0, 0, 0, 1>>}
WindowUpdateRawFrames ==
    {[type |-> "Raw", frame_type |-> 8, flags |-> 0, r |-> FALSE, identifier |-> id,
      payload |-> pl] : id \in {0, 1}, pl \in WindowUpdatePayloads}

\* hand-made DATA frames with the longest padding a pad-length byte can ask
\* for, the padding bytes zero
LongPaddedRawFrames ==
    {[type |-> "Raw", frame_type |-> 0, flags |-> 8, r |-> FALSE, identifier |-> 1,
      payload |-> <<p, 10>> \o Zeros(p)] : p \in {254, 255}}

\* a hand-made DATA frame one byte longer than the initial MAX_FRAME_SIZE
OversizedRawFrames ==
    {[type |-> "Raw", frame_type |-> 0, flags |-> 0, r |-> FALSE, identifier |-> 1,
      payload |-> Zeros(U24_INITIAL + 1)]}

CraftedFrames ==
    PaddedRawFrames \cup SettingsRawFrames \cup WindowUpdateRawFrames
        \cup LongPaddedRawFrames \cup OversizedRawFrames

\* frames that arrive in two parts: a WINDOW_UPDATE and a padded DATA frame
PartFrames ==
    {[type |-> "Raw", frame_type |-> 8, flags |-> 0, r |-> FALSE, identifier |-> 0,
      payload |-> <<0, 0, 0, 1>>],
     [type |-> "Raw", frame_type |-> 0, flags |-> 8, r |-> FALSE, identifier |-> 1,
      payload |-> <<1, 11, 0>>]}

\* a hand-made frame of which k bytes have arrived; when all have, the frame
Arrived(raw, k) ==
    IF k = 9 + Len(raw.payload)
    THEN [type |-> "Raw", frame_type |-> raw.frame_type, flags |-> raw.flags, r |-> raw.r,
          identifier |-> raw.identifier, payload |-> raw.payload]
    ELSE [type |-> "Raw", frame_type |-> raw.frame_type, flags |-> raw.flags, r |-> raw.r,
          identifier |-> raw.identifier, payload |-> raw.payload, arrived |-> k]

RawBytes(raw) ==
    U24Encode(Len(raw.payload)) \o <<raw.frame_type, raw.flags>>
        \o U31Encode(raw.r, raw.identifier) \o raw.payload

(***************************************************************************)
(* The codec as a state machine: frames are encoded onto a wire, or a      *)
(* hand-made frame arrives, and one FrameCodec decodes what is there.      *)
(***************************************************************************)
OtherThanCodec == <<toVars, fromVars, tunnelVars, handleVars, poolVars>>

\* the parts of the program a specification does not run
CodecOff ==
    /\ overflow_checks = FALSE /\ src = <<>> /\ length = None
    /\ sent = <<>> /\ got = <<>> /\ last = Idle /\ panicked = FALSE
    /\ storage = "heap" /\ seen = None
ToH2Off ==
    /\ variant = "io" /\ B = <<>> /\ input = <<>> /\ rem = 0 /\ sendLog = <<>>
    /\ cap = 0 /\ counterTo = 0 /\ pcTo = "off" /\ errTo = ""
FromH2Off ==
    /\ chunks = <<>> /\ allChunks = <<>> /\ written = <<>> /\ released = 0
    /\ counterFrom = 0 /\ shutdowns = 0 /\ pcFrom = "off" /\ errFrom = ""
TunnelOff == side = "client" /\ tunnel = "off" /\ result = None
HandleOff == role = "client" /\ process = "running" /\ handlers = <<>>
PoolOff ==
    /\ deque = <<>> /\ conns = <<>> /\ task = FALSE /\ notified = FALSE
    /\ dispatches = <<>> /\ pass = None /\ handle = FALSE /\ driver = "done"

Init ==
    /\ overflow_checks \in BOOLEAN
    /\ src = <<>>
    /\ length = None        \* FrameCodec::new()
    /\ sent = <<>> /\ got = <<>> /\ last = Idle /\ panicked = FALSE
    /\ storage \in {"heap", "inline"} /\ seen = None
    /\ ToH2Off /\ FromH2Off /\ TunnelOff /\ HandleOff /\ PoolOff

\* a BytesMut that grows beyond INLINE_CAP bytes moves its bytes to the heap
\* and keeps them there
StorageAfter(store, bytes) == IF Len(bytes) > INLINE_CAP THEN "heap" ELSE store

\* FrameCodec::encode(f, dst), dst being the wire the decoder reads
Encode(f) ==
    /\ ~panicked
    /\ Len(sent) < MaxFrames
    /\ \A i \in 1..Len(sent) : sent[i] \in StreamFrames
    /\ LET r == FrameEncode(f, overflow_checks) IN
        /\ panicked' = (r.tag = "Err")
        /\ src' = IF r.tag = "Err" THEN src ELSE src \o r.val
    /\ storage' = StorageAfter(storage, src')
    /\ sent' = Append(sent, f)
    /\ last' = Idle
    /\ UNCHANGED <<overflow_checks, length, got, seen>>
    /\ UNCHANGED OtherThanCodec

\* a complete hand-made frame arrives on an idle connection
Receive(raw) ==
    /\ sent = <<>>
    /\ src' = src \o RawBytes(raw)
    /\ storage' = StorageAfter(storage, src')
    /\ sent' = <<raw>>
    /\ last' = Idle
    /\ UNCHANGED <<overflow_checks, length, got, seen, panicked>>
    /\ UNCHANGED OtherThanCodec

\* the first k bytes of a hand-made frame arrive on an idle connection
ReceivePart(raw, k) ==
    /\ sent = <<>>
    /\ src' = src \o Take(RawBytes(raw), k)
    /\ storage' = StorageAfter(storage, src')
    /\ sent' = <<Arrived(raw, k)>>
    /\ last' = Idle
    /\ UNCHANGED <<overflow_checks, length, got, seen, panicked>>
    /\ UNCHANGED OtherThanCodec

\* the other bytes of that frame arrive
ReceiveRest ==
    /\ Len(sent) = 1
    /\ "arrived" \in DOMAIN sent[1]
    /\ src' = src \o Drop(RawBytes(sent[1]), sent[1].arrived)
    /\ storage' = StorageAfter(storage, src')
    /\ sent' = <<Arrived(sent[1], Len(RawBytes(sent[1])))>>
    /\ last' = Idle
    /\ UNCHANGED <<overflow_checks, length, got, seen, panicked>>
    /\ UNCHANGED OtherThanCodec

\* some more bytes of that frame arrive, k in all, and the frame is not complete
ReceiveMore(k) ==
    /\ Len(sent) = 1
    /\ "arrived" \in DOMAIN sent[1]
    /\ k > sent[1].arrived
    /\ k < Len(RawBytes(sent[1]))
    /\ src' = src \o SubSeq(RawBytes(sent[1]), sent[1].arrived + 1, k)
    /\ storage' = StorageAfter(storage, src')
    /\ sent' = <<Arrived(sent[1], k)>>
    /\ last' = Idle
    /\ UNCHANGED <<overflow_checks, length, got, seen, panicked>>
    /\ UNCHANGED OtherThanCodec

\* The places where FrameCodec::decode can panic.  BytesMut::split_to(at) and
\* split_off(at) assert at <= len, indexing asserts i < len, and unwrap()
\* panics on the Ok(None) an item codec returns when fewer than n bytes are
\* left; len is the length of the buffer at that place.
SplitPanics(len, at) == at < 0 \/ at > len
IndexPanics(len, i) == i >= len
UnwrapPanics(len, n) == len < n
Panicked == [tag |-> "Panic"]

\* eat_padding: split_to(1)[0], then split_off(payload_len - length)
EatPaddingPanics(payload) ==
    IF Len(payload) < 1 THEN FALSE
    ELSE \/ SplitPanics(Len(payload), 1)
         \/ LET pad == payload[1]
                 payload_len == Len(payload) - 1
             IN  IF payload_len <= pad THEN FALSE
                 ELSE SplitPanics(payload_len, payload_len - pad)

PadPanics(flags, payload) == HasFlag(flags, 8) /\ EatPaddingPanics(payload)

\* the length test before the priority block of HEADERS
HeadersPriorityShort_Four(p) == Len(p) < 4
HeadersPriorityShort(p) == Len(p) < 5

\* the arms of `match frame_type`, each followed up to its last split, index
\* or unwrap; an arm that returns Err before one of them does not reach it
PayloadPanics(frame_type, flags, identifier, payload, payload_length) ==
    LET u == Unpad(flags, payload)
        n == Len(payload)
    IN
    CASE frame_type = 0 -> identifier # 0 /\ PadPanics(flags, payload)
      [] frame_type = 1 ->
            /\ identifier # 0
            /\ \/ PadPanics(flags, payload)
               \/ /\ u.tag = "Ok"
                  /\ HasFlag(flags, 32)
                  /\ ~HeadersPriorityShort(u.val.payload)
                  /\ \/ UnwrapPanics(Len(u.val.payload), 4)
                     \/ SplitPanics(Len(u.val.payload) - 4, 1)
      [] frame_type = 2 ->
            /\ identifier # 0 /\ n = 5
            /\ (UnwrapPanics(n, 4) \/ IndexPanics(n - 4, 0))
      [] frame_type = 3 -> identifier # 0 /\ n = 4 /\ UnwrapPanics(n, 4)
      [] frame_type = 4 ->
            /\ identifier = 0 /\ n % 6 = 0
            /\ ~(HasFlag(flags, 1) /\ n # 0)
            /\ \E k \in 0..((n \div 6) - 1) : UnwrapPanics(n - 6 * k, 6)
      [] frame_type = 5 ->
            /\ identifier # 0
            /\ \/ PadPanics(flags, payload)
               \/ u.tag = "Ok" /\ Len(u.val.payload) >= 4
                      /\ UnwrapPanics(Len(u.val.payload), 4)
      [] frame_type = 6 -> identifier = 0 /\ n = 8 /\ IndexPanics(n, 7)
      [] frame_type = 7 ->
            /\ identifier = 0 /\ n >= 8
            /\ (UnwrapPanics(n, 4) \/ UnwrapPanics(n - 4, 4))
      [] frame_type = 8 -> payload_length = 4 /\ UnwrapPanics(n, 4)
      [] OTHER -> FALSE

\* FrameCodec::decode panics: in the header (two split_to(1)[0], the unwrap
\* of the stream identifier, split_to(payload_length)) or in the arm.  The
\* payload is what split_to(payload_length) gives when it does not panic.
DecodePanics(len0, src0, st) ==
    LET u24 == IF len0 = None THEN U24Decode(src0, st.len) ELSE [item |-> len0, rest |-> src0] IN
    IF u24.item = None THEN FALSE
    ELSE LET payload_length == u24.item.val
             s == u24.rest
         IN  IF Len(s) < 6 + payload_length THEN FALSE
             ELSE \/ SplitPanics(Len(s), 1)
                  \/ SplitPanics(Len(s) - 1, 1)
                  \/ UnwrapPanics(Len(s) - 2, 4)
                  \/ SplitPanics(Len(s) - 6, payload_length)
                  \/ PayloadPanics(s[1], s[2], U31Decode(SubSeq(s, 3, 6), st.id).item.val.n,
                                   SubSeq(s, 7, 6 + payload_length), payload_length)

\* one call of FrameCodec::decode(src) on the one codec of the connection; st
\* is what its reads through dropped temporaries find
Decode(st) ==
    /\ ~panicked
    /\ last.tag \in {"Idle", "Some"}
    /\ IF DecodePanics(length, src, st)
       THEN /\ panicked' = TRUE
            /\ last' = Panicked
            /\ UNCHANGED <<src, length, seen, got>>
       ELSE /\ LET r == FrameDecode(length, src, st) IN
                /\ src' = r.src
                /\ length' = r.length
                /\ last' = r.ret
                /\ seen' = r.seen
                /\ got' = IF r.ret = None THEN got ELSE Append(got, r.ret)
            /\ UNCHANGED panicked
    /\ UNCHANGED <<overflow_checks, sent, storage>>
    /\ UNCHANGED OtherThanCodec

\* the first frame on a wire is any sampled frame, a later one a stream frame
Encodable == IF sent = <<>> THEN Frames ELSE StreamFrames
Receivable == IF sent = <<>> THEN RawFrames \cup CraftedFrames ELSE {}

Next ==
    \/ \E f \in Encodable : Encode(f)
    \/ \E raw \in Receivable : Receive(raw)
    \/ \E raw \in PartFrames : \E k \in 0..(8 + Len(raw.payload)) : ReceivePart(raw, k)
    \/ ReceiveRest
    \/ \E k \in 1..(8 + MaxRawLen) : ReceiveMore(k)
    \/ \E st \in Stale(storage) : Decode(st)

Spec == Init /\ [][Next]_vars

(***************************************************************************)
(* Claims about the frame codec.                                           *)
(***************************************************************************)
HasPad255(f) == "pad_length" \in DOMAIN f /\ f.pad_length = Some(255)

\* C1: a valid frame that was encoded and then decoded by a fresh FrameCodec comes
\* back as Some(that frame), and nothing is left in the buffer; this for every
\* variant and every pad_length 0..255.
C1_RoundTrip ==
    (Len(sent) = 1 /\ sent[1].type # "Raw" /\ (panicked \/ last # Idle))
        => (~panicked /\ got = <<Some(sent[1])>> /\ src = <<>>)

\* C2: frames fed back to back to one FrameCodec come out once each and in wire
\* order, the codec being back in NeedLength (length = None) after each frame.
C2_WireOrder ==
    ((\A i \in 1..Len(sent) : sent[i].type # "Raw" /\ ~HasPad255(sent[i])) /\ ~panicked)
        => /\ Len(got) <= Len(sent)
           /\ \A i \in 1..Len(got) : got[i] = Some(sent[i])
           /\ (last.tag = "Some" => length = None)

\* frame types that need a non-zero stream identifier, and those that need zero
NonZeroIdTypes == {0, 1, 2, 3, 5, 9}
ZeroIdTypes == {4, 6, 7}
ScopeViolated(raw) ==
    \/ raw.frame_type \in NonZeroIdTypes /\ raw.identifier = 0
    \/ raw.frame_type \in ZeroIdTypes /\ raw.identifier # 0

\* a decode call has parsed a frame header: seen.val holds the type, flags,
\* stream identifier and payload it parsed and `last` the value it returned
Parsed == seen # None /\ last # Idle

BUF_SIZE == 2048
LIB_BUF_SIZE == 1024

\* BytesMut::with_capacity(..) at the top of copy_to_h2
InitialCapacity(v) == IF v = "io" THEN BUF_SIZE ELSE LIB_BUF_SIZE

RECURSIVE Concat(_)
Concat(ss) == IF ss = <<>> THEN <<>> ELSE Head(ss) \o Concat(Tail(ss))

LogData(log) == Concat([i \in 1..Len(log) |-> log[i].data])

\* src.read_buf(&mut buf) fills at most the free capacity of the buffer and
\* returns 0 both at end of input and when the buffer has no room left
MaxReadable(free, in) == Min(free, Len(in))

\* the sizes a ready read may return: anything the source cares to give;
\* the model takes short reads for the first turns and the largest one
ReadSizes(free, in, turns) ==
    LET m == MaxReadable(free, in) IN
    IF m = 0 THEN {}
    ELSE {m} \cup (IF turns < MaxSmallReads THEN 1..Min(m, MaxRead) ELSE {})

\* BytesMut::reserve(additional): nothing when the room is there already;
\* otherwise the buffer grows to hold at least `additional` more bytes
\* (how much more the allocator decides)
Reserve(free, additional) ==
    IF additional <= free THEN {free}
    ELSE {additional, IF additional < BUF_SIZE THEN BUF_SIZE ELSE additional}

\* free capacity of buf at the end of a turn that read n bytes into it:
\* buf.take() leaves the unused tail; io.rs then tops it up, lib.rs does not
FreeAfterTurn(v, free, n) ==
    LET r == free - n IN
    IF v = "io" /\ r < BUF_SIZE THEN Reserve(r, BUF_SIZE - r) ELSE {r}

\* counter += n
CounterAfter_One(counter, n) == counter + 1
CounterAfter(counter, n) == counter + n

\* what one send_data call hands to the stream; cap is the send capacity the
\* stream had at the call (recorded for the flow-control claims)
SendCall(data, eos) == [data |-> data, end_of_stream |-> eos, cap |-> cap]

\* the stream's capacity after taking n bytes: what does not fit is queued
\* inside h2 and consumes capacity as it arrives
CapAfter(c, n) == IF n <= c THEN c - n ELSE 0

\* n > 0: send the chunk read, count it, keep looping
ToData(n) ==
    /\ pcTo = "reading"
    /\ n \in ReadSizes(rem, input, Len(sendLog))
    /\ sendLog' = Append(sendLog, SendCall(Take(input, n), FALSE))
    /\ input' = Drop(input, n)
    /\ counterTo' = CounterAfter(counterTo, n)
    /\ rem' \in FreeAfterTurn(variant, rem, n)
    /\ cap' = CapAfter(cap, n)
    /\ UNCHANGED <<variant, B, pcTo, errTo>>

\* n == 0: send an empty chunk with end_of_stream, leave the loop, Ok(counter)
ToEnd ==
    /\ pcTo = "reading"
    /\ MaxReadable(rem, input) = 0
    /\ sendLog' = Append(sendLog, SendCall(<<>>, TRUE))
    /\ pcTo' = "done"
    /\ UNCHANGED <<variant, B, input, rem, cap, counterTo, errTo>>

\* poll!(src.read_buf(..))? : the read fails
ToReadErr ==
    /\ pcTo = "reading"
    /\ pcTo' = "failed" /\ errTo' = "read"
    /\ UNCHANGED <<variant, B, input, rem, sendLog, cap, counterTo>>

\* dst.send_data(..)? : the stream refuses the chunk that was read
ToSendErr ==
    /\ pcTo = "reading"
    /\ \E n \in ReadSizes(rem, input, Len(sendLog)) \cup
                (IF MaxReadable(rem, input) = 0 THEN {0} ELSE {}) :
           input' = Drop(input, n)
    /\ pcTo' = "failed" /\ errTo' = "send"
    /\ UNCHANGED <<variant, B, rem, sendLog, cap, counterTo>>

\* the peer opens the stream's send window (WINDOW_UPDATE); the pump never
\* asks for it
Grant ==
    /\ pcTo = "reading"
    /\ cap < MaxCap
    /\ cap' = cap + 1
    /\ UNCHANGED <<variant, B, input, rem, sendLog, counterTo, pcTo, errTo>>

\* the byte sources the pump is run on: every short sequence over two byte
\* values, and two long ones that fill the read buffer
ByteValues == {7, 8}
ShortInputs == UNION {[1..n -> ByteValues] : n \in 0..MaxInput}
LongInput(n) == [i \in 1..n |-> i % 251]
Inputs(v) == ShortInputs \cup {LongInput(InitialCapacity(v)), LongInput(InitialCapacity(v) + 1)}

ToH2Start(v, ins) ==
    /\ variant = v
    /\ B \in ins /\ input = B
    /\ rem = InitialCapacity(v)
    /\ sendLog = <<>> /\ cap = 0 /\ counterTo = 0
    /\ pcTo = "reading" /\ errTo = ""

ToH2Alone == UNCHANGED <<codecVars, fromVars, tunnelVars, handleVars, poolVars>>

InitToH2 == CodecOff /\ FromH2Off /\ TunnelOff /\ HandleOff /\ PoolOff /\ ToH2Start("io", Inputs("io"))

NextToH2 ==
    \/ \E n \in ReadSizes(rem, input, Len(sendLog)) : ToData(n) /\ ToH2Alone
    \/ ToEnd /\ ToH2Alone
    \/ ToReadErr /\ ToH2Alone
    \/ ToSendErr /\ ToH2Alone
    \/ Grant /\ ToH2Alone

SpecToH2 == InitToH2 /\ [][NextToH2]_vars

\* the copy of the pump in lib.rs
InitToH2Lib == CodecOff /\ FromH2Off /\ TunnelOff /\ HandleOff /\ PoolOff /\ ToH2Start("lib", Inputs("lib"))

SpecToH2Lib == InitToH2Lib /\ [][NextToH2]_vars

(***************************************************************************)
(* Properties of copy_to_h2                                                *)
(***************************************************************************)
EndStreamCalls == {i \in 1..Len(sendLog) : sendLog[i].end_of_stream}

\* C3: while copy_to_h2 of io.rs runs without error the chunks handed to
\* send_data, concatenated in send order, followed by the unread input are
\* the source's bytes B and the counter is the number of bytes sent; at
\* completion the chunks concatenate to B and the count returned is Len(B).
C3_AllBytesSent ==
    /\ pcTo \in {"reading", "done"} =>
           /\ LogData(sendLog) \o input = B
           /\ counterTo = Len(LogData(sendLog))
    /\ pcTo = "done" => (LogData(sendLog) = B /\ counterTo = Len(B))

\* C3 witness: a source of three bytes pumped to completion in several chunks
C3_Witness ==
    /\ variant = "io" /\ pcTo = "done"
    /\ Len(B) = 3 /\ Len(sendLog) >= 3
    /\ LogData(sendLog) = B /\ counterTo = 3

\* C5: no send_data call hands over more bytes than the send capacity
\* the stream has at the moment of the call.
C5_WithinCapacity ==
    \A i \in 1..Len(sendLog) : Len(sendLog[i].data) <= sendLog[i].cap

\* C7: END_STREAM is sent at most once, on a call with an empty payload
\* that is the last call, only when the source is exhausted, and the pump
\* has terminated exactly when it has been sent.
C7_EndStreamAtEof ==
    /\ Cardinality(EndStreamCalls) <= 1
    /\ \A i \in EndStreamCalls :
           /\ i = Len(sendLog)
           /\ sendLog[i].data = <<>>
           /\ input = <<>>
    /\ (pcTo = "done") <=> (EndStreamCalls # {})

(***************************************************************************)
(* io.rs: copy_from_h2, the pump from an HTTP/2 receive stream to a byte   *)
(* sink.  One action is one turn of the `for buf in src` loop, or the      *)
(* shutdown that follows it.                                               *)
(***************************************************************************)
\* dst.write_buf(&mut buf): nothing to write for an empty chunk, otherwise
\* ONE write call, which accepts between 1 and all of the bytes
WriteSizes(chunk) == IF chunk = <<>> THEN {0} ELSE 1..Len(chunk)

\* bytes of capacity handed back to the peer for a chunk of which w bytes
\* were written: the loop body has no release_capacity call
Released(w) == 0

\* a chunk arrives; n = poll!(dst.write_buf(&mut buf))?; counter += n;
\* what the write did not accept goes away with buf at the end of the turn
FromChunk(w) ==
    /\ pcFrom = "receiving"
    /\ chunks # <<>>
    /\ w \in WriteSizes(Head(chunks))
    /\ written' = written \o Take(Head(chunks), w)
    /\ counterFrom' = counterFrom + w
    /\ released' = released + Released(w)
    /\ chunks' = Tail(chunks)
    /\ UNCHANGED <<allChunks, shutdowns, pcFrom, errFrom>>

\* a chunk arrives and the write fails
FromWriteErr ==
    /\ pcFrom = "receiving"
    /\ chunks # <<>>
    /\ chunks' = Tail(chunks)
    /\ pcFrom' = "failed" /\ errFrom' = "write"
    /\ UNCHANGED <<allChunks, written, released, counterFrom, shutdowns>>

\* the stream yields an error instead of the next chunk
FromStreamErr ==
    /\ pcFrom = "receiving"
    /\ pcFrom' = "failed" /\ errFrom' = "stream"
    /\ UNCHANGED <<chunks, allChunks, written, released, counterFrom, shutdowns>>

\* the stream ends: await!(shutdown(dst))?; Ok(counter)
FromEnd ==
    /\ pcFrom = "receiving"
    /\ chunks = <<>>
    /\ shutdowns' = shutdowns + 1
    /\ pcFrom' = "done"
    /\ UNCHANGED <<chunks, allChunks, written, released, counterFrom, errFrom>>

\* the stream ends and the shutdown fails
FromShutdownErr ==
    /\ pcFrom = "receiving"
    /\ chunks = <<>>
    /\ shutdowns' = shutdowns + 1
    /\ pcFrom' = "failed" /\ errFrom' = "shutdown"
    /\ UNCHANGED <<chunks, allChunks, written, released, counterFrom>>

\* the DATA chunks the stream delivers
Chunk == UNION {[1..n -> ByteValues] : n \in 0..MaxChunkLen}
ChunkLists == UNION {[1..n -> Chunk] : n \in 0..MaxChunks}

FromH2Start ==
    /\ allChunks \in ChunkLists /\ chunks = allChunks
    /\ written = <<>> /\ released = 0 /\ counterFrom = 0 /\ shutdowns = 0
    /\ pcFrom = "receiving" /\ errFrom = ""

FromH2Alone == UNCHANGED <<codecVars, toVars, tunnelVars, handleVars, poolVars>>

InitFromH2 == CodecOff /\ ToH2Off /\ TunnelOff /\ HandleOff /\ PoolOff /\ FromH2Start

WritesNow == IF pcFrom = "receiving" /\ chunks # <<>> THEN WriteSizes(Head(chunks)) ELSE {}

NextFromH2 ==
    \/ \E w \in WritesNow : FromChunk(w) /\ FromH2Alone
    \/ FromWriteErr /\ FromH2Alone
    \/ FromStreamErr /\ FromH2Alone
    \/ FromEnd /\ FromH2Alone
    \/ FromShutdownErr /\ FromH2Alone

SpecFromH2 == InitFromH2 /\ [][NextFromH2]_vars

(***************************************************************************)
(* Properties of copy_from_h2                                              *)
(***************************************************************************)
\* C4: while copy_from_h2 runs without error the bytes written to the
\* destination followed by the chunks still to come are all the bytes the
\* stream delivers: no byte of a chunk is skipped when the destination
\* accepts fewer bytes than the chunk holds.
C4_WholeChunkWritten ==
    pcFrom \in {"receiving", "done"} =>
        written \o Concat(chunks) = Concat(allChunks)

\* C6: the count equals the number of bytes written to the destination and
\* at completion equals the capacity released to the stream; capacity is
\* never released for bytes that were not written.
C6_CountAndRelease ==
    /\ pcFrom # "off" => (counterFrom = Len(written) /\ released <= Len(written))
    /\ pcFrom = "done" => released = counterFrom

(***************************************************************************)
(* client.rs client_handle and server.rs server_handle: the two pumps of a *)
(* tunnel joined with Future::join.  The joined future polls both pumps    *)
(* while it is pending; a pump's step below is a step it takes inside such *)
(* a poll.                                                                 *)
(***************************************************************************)
\* Join::poll polls its futures only while it has not returned: after Ok it
\* is finished, after Err it has erased (dropped) both
JoinPolls_AfterFailure(t) == t \in {"running", "failed"}
JoinPolls(t) == t = "running"

\* the pair join returns: (first future, second future); client_handle joins
\* copy_to_h2 with copy_from_h2, server_handle copy_from_h2 with copy_to_h2
JoinPair(sd, to, from) == IF sd = "client" THEN <<to, from>> ELSE <<from, to>>

\* what Join::poll returns given the state of the two pumps: Err as soon as
\* one has failed, the pair when both are done, NotReady otherwise
JoinOutcome_Either(pt, pf, et, ef, ct, cf, sd) ==
    IF pt = "failed" THEN [tunnel |-> "failed", result |-> Err(et)]
    ELSE IF pf = "failed" THEN [tunnel |-> "failed", result |-> Err(ef)]
    ELSE IF pt = "done" \/ pf = "done"
         THEN [tunnel |-> "ok", result |-> Ok(JoinPair(sd, ct, cf))]
    ELSE [tunnel |-> "running", result |-> None]
JoinOutcome(pt, pf, et, ef, ct, cf, sd) ==
    IF pt = "failed" THEN [tunnel |-> "failed", result |-> Err(et)]
    ELSE IF pf = "failed" THEN [tunnel |-> "failed", result |-> Err(ef)]
    ELSE IF pt = "done" /\ pf = "done"
         THEN [tunnel |-> "ok", result |-> Ok(JoinPair(sd, ct, cf))]
    ELSE [tunnel |-> "running", result |-> None]

JoinAfter ==
    LET o == JoinOutcome(pcTo', pcFrom', errTo', errFrom', counterTo', counterFrom', side)
    IN  tunnel' = o.tunnel /\ result' = o.result

JoinedTo == UNCHANGED <<codecVars, fromVars, side, handleVars, poolVars>> /\ JoinAfter
JoinedFrom == UNCHANGED <<codecVars, toVars, side, handleVars, poolVars>> /\ JoinAfter

\* the traffic of the tunnels that are run: sources and chunks of every
\* length up to the bounds
TunnelInputs == {LongInput(n) : n \in 0..MaxInput}
TunnelChunk == {LongInput(n) : n \in 0..MaxChunkLen}
TunnelChunkLists == UNION {[1..n -> TunnelChunk] : n \in 0..MaxChunks}

InitTunnel ==
    /\ CodecOff /\ HandleOff /\ PoolOff
    /\ ToH2Start("io", TunnelInputs)
    /\ allChunks \in TunnelChunkLists /\ chunks = allChunks
    /\ written = <<>> /\ released = 0 /\ counterFrom = 0 /\ shutdowns = 0
    /\ pcFrom = "receiving" /\ errFrom = ""
    /\ side \in {"client", "server"}
    /\ tunnel = "running" /\ result = None

ToH2Polled ==
    \/ \E n \in ReadSizes(rem, input, Len(sendLog)) :
           JoinPolls(tunnel) /\ ToData(n) /\ JoinedTo
    \/ JoinPolls(tunnel) /\ ToEnd /\ JoinedTo
    \/ JoinPolls(tunnel) /\ ToReadErr /\ JoinedTo
    \/ JoinPolls(tunnel) /\ ToSendErr /\ JoinedTo

FromH2Polled ==
    \/ \E w \in WritesNow : JoinPolls(tunnel) /\ FromChunk(w) /\ JoinedFrom
    \/ JoinPolls(tunnel) /\ FromWriteErr /\ JoinedFrom
    \/ JoinPolls(tunnel) /\ FromStreamErr /\ JoinedFrom
    \/ JoinPolls(tunnel) /\ FromEnd /\ JoinedFrom
    \/ JoinPolls(tunnel) /\ FromShutdownErr /\ JoinedFrom

NextTunnel == ToH2Polled \/ FromH2Polled

SpecTunnel == InitTunnel /\ [][NextTunnel]_vars

(***************************************************************************)
(* Properties of the tunnel                                                *)
(***************************************************************************)
\* C8: the tunnel completes only when both pumps have finished, its result
\* is the pair of their counts in the order of the join, and while one pump
\* has finished and the other has not the tunnel is still running and the
\* other pump can take its next step.
C8_CompletesAfterBoth ==
    /\ tunnel = "ok" =>
           /\ pcTo = "done" /\ pcFrom = "done"
           /\ result = Ok(JoinPair(side, counterTo, counterFrom))
    /\ (pcTo = "done" /\ pcFrom = "receiving") =>
           (tunnel = "running" /\ ENABLED FromH2Polled)
    /\ (pcFrom = "done" /\ pcTo = "reading") =>
           (tunnel = "running" /\ ENABLED ToH2Polled)

\* C8 witness: a server-side tunnel completed with both pumps having moved
\* bytes, the counts in join order (copy_from_h2 first)
C8_Witness ==
    /\ tunnel = "ok" /\ side = "server"
    /\ counterTo = 3 /\ counterFrom = 2
    /\ result = Ok(<<2, 3>>)

\* C9: when a pump fails the tunnel fails with that pump's error, and once
\* the tunnel has failed neither pump reads, writes, sends or shuts down.
C9_FailureStopsBoth ==
    /\ [](/\ pcTo = "failed" => (tunnel = "failed" /\ result = Err(errTo))
          /\ pcFrom = "failed" => (tunnel = "failed" /\ result = Err(errFrom))
          /\ tunnel = "failed" => (pcTo = "failed" \/ pcFrom = "failed"))
    /\ [][tunnel = "failed" => UNCHANGED <<toVars, fromVars>>]_vars

\* C9 witness: the receive pump failed on a write while the send pump still
\* had input to read and had already sent; the tunnel carries the write error
C9_Witness ==
    /\ tunnel = "failed" /\ result = Err("write")
    /\ pcFrom = "failed" /\ pcTo = "reading"
    /\ input # <<>> /\ sendLog # <<>>

(***************************************************************************)
(* Properties of the decoder's checks                                      *)
(***************************************************************************)
\* the frame the last decode returned, when it returned one
Returned == last.val

SettingsDecoded == Parsed /\ seen.val.frame_type = 4 /\ seen.val.identifier = 0
WireSetting(i) == SubSeq(seen.val.payload, 6 * i - 5, 6 * i)

C14_SettingRanges ==
    (SettingsDecoded /\ Len(seen.val.payload) = 6 /\ ~HasFlag(seen.val.flags, 1)) =>
        LET pl == seen.val.payload
            id == pl[1] * 256 + pl[2]
            hi == pl[3] * 256 + pl[4]
            lo == pl[5] * 256 + pl[6]
            outOfRange == \/ id = 5 /\ ((hi = 0 /\ lo < 16384) \/ hi > 255)
                          \/ id = 4 /\ hi > 32767
        IN  IF outOfRange THEN last = Err("ProtocolError")
            ELSE /\ last.tag = "Some"
                 /\ Len(Returned.settings) = 1

\* C14 witness: MAX_FRAME_SIZE 0x3FFF, one below the smallest allowed value,
\* was refused with ProtocolError
C14_Witness ==
    /\ SettingsDecoded
    /\ seen.val.payload = SettingWire(5, <<0, 16383>>)
    /\ last = Err("ProtocolError")

\* C13: a WINDOW_UPDATE frame decodes to FrameSizeError when its payload is
\* not four bytes long, to ProtocolError when the low 31 bits of the payload
\* are zero, and otherwise to a WindowUpdate frame with the identifier of the
\* frame, zero or not, and the increment the payload holds.
C13_WindowUpdate ==
    (Parsed /\ seen.val.frame_type = 8) =>
        LET pl == seen.val.payload IN
        IF Len(pl) # 4 THEN last = Err("FrameSizeError")
        ELSE IF U31FromBytes(pl) = 0 THEN last = Err("ProtocolError")
        ELSE last = Some([type |-> "WindowUpdate", identifier |-> seen.val.identifier,
                          window_size_increment |-> U31FromBytes(pl)])

\* C15: when the encoder has written the first frame of a wire, the 24-bit
\* length field at the front of the wire equals the number of bytes that
\* follow the 9-byte header; for a padded DATA, HEADERS or PUSH_PROMISE frame
\* those are the pad-length byte, the body and pad_length zero bytes, for
\* every pad_length 0..255.
C15_LengthField ==
    (/\ Len(sent) = 1
     /\ sent[1].type # "Raw"
     /\ last = Idle
     /\ ~panicked) =>
        /\ Len(src) >= 9
        /\ U24FromBytes(Take(src, 3)) = Len(src) - 9

\* the flag bits FrameCodec::decode reads for a frame type; an unknown type keeps
\* its flags byte whole
DefinedFlags(frame_type) ==
    CASE frame_type = 0 -> 1 + 8
      [] frame_type = 1 -> 1 + 4 + 8 + 32
      [] frame_type = 4 -> 1
      [] frame_type = 5 -> 4 + 8
      [] frame_type = 6 -> 1
      [] frame_type = 9 -> 4
      [] frame_type > 9 -> 255
      [] OTHER -> 0

\* a hand-made frame whose reserved bits, padding bytes and undefined flag bits
\* are zero and whose ENABLE_PUSH values are 0 or 1
Canonical(raw) ==
    LET pl == raw.payload
        t == raw.frame_type
        padded == t \in {0, 1, 5} /\ HasFlag(raw.flags, 8)
        body == IF padded /\ pl # <<>> THEN Drop(pl, 1) ELSE pl
    IN  /\ ~raw.r
        /\ \A bit \in {1, 2, 4, 8, 16, 32, 64, 128} :
                HasFlag(raw.flags, bit) => HasFlag(DefinedFlags(t), bit)
        /\ (padded /\ pl # <<>> /\ pl[1] < Len(pl) - 1) =>
                \A i \in (Len(pl) - pl[1] + 1)..Len(pl) : pl[i] = 0
        /\ (t \in {5, 7, 8} /\ body # <<>>) => body[1] < 128
        /\ (t = 4 /\ Len(pl) % 6 = 0) =>
                \A i \in 1..(Len(pl) \div 6) :
                    LET w == SubSeq(pl, 6 * i - 5, 6 * i) IN
                    ReadU16(Take(w, 2)) = 2 => ReadU32(SubSeq(w, 3, 6)) \in {<<0, 0>>, <<0, 1>>}

\* C16: when the decoder has accepted one complete hand-made frame whose
\* reserved bits, padding bytes and undefined flag bits are zero and whose
\* ENABLE_PUSH values are 0 or 1, encoding the frame it returned writes
\* exactly the bytes that were decoded.
C16_Reencode ==
    (/\ Len(sent) = 1
     /\ sent[1].type = "Raw"
     /\ Canonical(sent[1])
     /\ last.tag = "Some") =>
        FrameEncode(Returned, overflow_checks) = Ok(RawBytes(sent[1]))

(***************************************************************************)
(* U24Codec, U31Codec and SettingCodec on a buffer of their own: one item  *)
(* is encoded into an empty buffer, or hand-made bytes are put there, and  *)
(* the codec of that item decodes the buffer.  The buffer is src, the item *)
(* is kept in sent, the value of the decode call in last.                  *)
(***************************************************************************)
U24Items == {0, 1, 255, 256, 65535, 65536, U24_INITIAL, U24_MAX - 1, U24_MAX}
U31Items ==
    {[b |-> b, n |-> n] :
        b \in BOOLEAN, n \in {0, 1, 255, 65536, 16777216, U31_MAX - 1, U31_MAX}}
U32Values == {<<0, 0>>, <<0, 1>>, <<0, 65535>>, <<1, 0>>, <<32768, 0>>, <<65535, 65535>>}
SettingItems ==
    {SettingU32(k, v) :
        k \in {"HeaderTableSize", "MaxConcurrentStreams", "MaxHeaderListSize"},
        v \in U32Values}
        \cup {SettingBool("EnablePush", on) : on \in BOOLEAN}
        \cup {SettingInt("InitialWindowSize", n) : n \in {0, 1, U31_MAX}}
        \cup {SettingInt("MaxFrameSize", n) :
                n \in {0, U24_INITIAL - 1, U24_INITIAL, U24_INITIAL + 1, U24_MAX}}
        \cup {UnknownSetting(id, v) : id \in {0, 1, 5, 7, 65535}, v \in U32Values}

\* hand-made buffers of 0..MaxInput bytes, too short for U31Codec
ShortBuffers == UNION {[1..k -> {0, 255}] : k \in 0..MaxInput}

\* SettingCodec::decode(src): None below 6 bytes, else one setting or its error
SettingCodecDecode(s) ==
    IF Len(s) < 6 THEN [item |-> None, rest |-> s]
    ELSE LET r == SettingDecode(Take(s, 6)) IN
         [item |-> IF r.tag = "Err" THEN r ELSE Some(r.val), rest |-> Drop(s, 6)]

\* what the encoder of a codec writes for an item
ItemWire(codec, item) ==
    CASE codec = "U24" -> U24Encode(item)
      [] codec = "U31" -> U31Encode(item.b, item.n)
      [] codec = "Setting" -> SettingEncode(item)

\* what the decoder of a codec returns and leaves
ItemDecode(codec, buf, stale) ==
    CASE codec = "U24" -> U24Decode(buf, stale)
      [] codec = "U31" -> U31Decode(buf, stale)
      [] codec = "Setting" -> SettingCodecDecode(buf)

InitItems ==
    /\ overflow_checks = FALSE /\ src = <<>> /\ length = None
    /\ sent = <<>> /\ got = <<>> /\ last = Idle /\ panicked = FALSE
    /\ storage \in {"heap", "inline"} /\ seen = None
    /\ ToH2Off /\ FromH2Off /\ TunnelOff /\ HandleOff /\ PoolOff

\* codec.encode(item, &mut buf) on an empty buffer
ItemEncode(codec, item) ==
    /\ sent = <<>>
    /\ src' = src \o ItemWire(codec, item)
    /\ sent' = <<[codec |-> codec, raw |-> FALSE, item |-> item]>>
    /\ UNCHANGED <<overflow_checks, length, got, last, storage, seen, panicked>>
    /\ UNCHANGED OtherThanCodec

\* a buffer is made from hand-written bytes
ItemBytes(codec, bytes) ==
    /\ sent = <<>>
    /\ src' = bytes
    /\ sent' = <<[codec |-> codec, raw |-> TRUE, item |-> bytes]>>
    /\ UNCHANGED <<overflow_checks, length, got, last, storage, seen, panicked>>
    /\ UNCHANGED OtherThanCodec

\* codec.decode(&mut buf), once
ItemDecoded(stale) ==
    /\ sent # <<>>
    /\ last = Idle
    /\ LET r == ItemDecode(sent[1].codec, src, stale) IN
        /\ last' = r.item
        /\ src' = r.rest
    /\ UNCHANGED <<overflow_checks, length, sent, got, storage, seen, panicked>>
    /\ UNCHANGED OtherThanCodec

NextItems ==
    \/ \E n \in U24Items : ItemEncode("U24", n)
    \/ \E p \in U31Items : ItemEncode("U31", p)
    \/ \E s \in SettingItems : ItemEncode("Setting", s)
    \/ \E codec \in {"U24", "U31", "Setting"}, bytes \in ShortBuffers : ItemBytes(codec, bytes)
    \/ \E stale \in ReadsFrom(storage) : ItemDecoded(stale)

SpecItems == InitItems /\ [][NextItems]_vars

(***************************************************************************)
(* Properties of the unit codecs                                           *)
(***************************************************************************)
\* a Setting the decoder does not refuse and does not read as another one:
\* MAX_FRAME_SIZE within its limits, Unknown with an id outside 1..6
ValidSetting(s) ==
    /\ s.kind = "MaxFrameSize" => (s.n >= U24_INITIAL /\ s.n <= U24_MAX)
    /\ s.kind = "InitialWindowSize" => s.n <= U31_MAX
    /\ s.kind = "Unknown" => s.id \notin 1..6

Encoded(codec) == sent # <<>> /\ sent[1].codec = codec /\ ~sent[1].raw
Decoded(codec) == Encoded(codec) /\ last # Idle

\* C17: decoding the six bytes written by encoding a valid Setting returns
\* that Setting and leaves nothing; for Unknown(id, value) that is
\* Unknown(id, value) again.
C17_SettingRoundTrip ==
    (Decoded("Setting") /\ ValidSetting(sent[1].item)) =>
        last = Some(sent[1].item) /\ src = <<>>

\* C17 witness: Unknown(7, 0x8000_0000) was encoded and decoded to itself
C17_Witness ==
    /\ Decoded("Setting")
    /\ sent[1].item = UnknownSetting(7, <<32768, 0>>)
    /\ last = Some(UnknownSetting(7, <<32768, 0>>))

\* the bytes U24Codec and U31Codec need
ItemSize(codec) == IF codec = "U24" THEN 3 ELSE 4

\* C18: decoding what U24Codec wrote for n returns n; decoding what U31Codec
\* wrote for (b, n) returns (b, n), and the top bit of the first byte written
\* is set exactly when b is true; a hand-made buffer shorter than 3 bytes
\* (U24Codec) or 4 bytes (U31Codec) decodes to None and keeps its bytes.
C18_UintRoundTrip ==
    /\ Decoded("U24") => last = Some(sent[1].item)
    /\ Decoded("U31") => last = Some(sent[1].item)
    /\ (Encoded("U31") /\ last = Idle) => ((src[1] >= 128) <=> sent[1].item.b)
    /\ (/\ sent # <<>>
        /\ sent[1].raw
        /\ sent[1].codec \in {"U24", "U31"}
        /\ Len(sent[1].item) < ItemSize(sent[1].codec)
        /\ last # Idle) => (last = None /\ src = sent[1].item)

(***************************************************************************)
(* The event loop of client() and server(): lp.run(done) polls the accept  *)
(* loop and every handler spawned on it, client_handle per accepted        *)
(* connection and server_handle per incoming stream.  A handler is         *)
(*   "free"     not spawned yet                                            *)
(*   "request"  client_handle waiting for the response to its CONNECT      *)
(*   "poll"     server_handle spawned with a request, not polled yet       *)
(*   "dialing"  server_handle waiting for TcpStream::connect               *)
(*   "pumping"  the two pumps are joined                                   *)
(*   "closed"   the handler returned and its socket and stream are dropped *)
(*   "panicked" the handler panicked                                       *)
(* input is the status (client) or the method (server) the peer sent, log  *)
(* what server_handle did on its stream and its upstream socket, in order. *)
(* Nothing between a handler and lp.run catches a panic: it unwinds out of *)
(* lp.run and ends the process with every handler in it.                   *)
(***************************************************************************)
Statuses == {"200", "403", "502"}
Methods == {"CONNECT", "GET", "POST"}

FreeHandler ==
    [pc |-> "free", input |-> "", dialed |-> FALSE, pumps |-> FALSE, reset |-> "",
     log |-> <<>>]

InitLoop ==
    /\ CodecOff /\ ToH2Off /\ FromH2Off /\ TunnelOff /\ PoolOff
    /\ role \in {"client", "server"}
    /\ process = "running"
    /\ handlers = [i \in 1..MaxHandlers |-> FreeHandler]

LoopAlone == UNCHANGED <<codecVars, toVars, fromVars, tunnelVars, role, poolVars>>

\* unimplemented!() in handler i, which had read input from its peer
Unimplemented(i, received) ==
    /\ process' = "panicked"
    /\ handlers' = [handlers EXCEPT ![i].pc = "panicked", ![i].input = received]

\* client(): a connection is accepted and client_handle spawned; it sends its
\* CONNECT request
ClientAccept(i) ==
    /\ process = "running" /\ role = "client"
    /\ handlers[i].pc = "free"
    /\ handlers' = [handlers EXCEPT ![i].pc = "request"]
    /\ UNCHANGED process

\* client_handle: the response arrives with a status
ClientResponse(i, status) ==
    /\ process = "running" /\ role = "client"
    /\ handlers[i].pc = "request"
    /\ IF status # "200"
       THEN Unimplemented(i, status)
       ELSE /\ handlers' = [handlers EXCEPT ![i].pc = "pumping", ![i].input = status,
                                            ![i].pumps = TRUE]
            /\ UNCHANGED process

\* client_handle: send_request or poll_response fails, the `?` returns the error
ClientRequestErr(i) ==
    /\ process = "running" /\ role = "client"
    /\ handlers[i].pc = "request"
    /\ handlers' = [handlers EXCEPT ![i].pc = "closed"]
    /\ UNCHANGED process

\* a for_each whose closure returns the handler itself, so that the next
\* stream is taken only when the handler of the previous one has returned
Spawnable_Awaited(i) ==
    /\ handlers[i].pc = "free"
    /\ \A j \in DOMAIN handlers : handlers[j].pc \in {"free", "closed"}

\* server.for_each takes stream i: its closure spawns the handler on the loop
\* and returns Ok(()) at once, whatever the handlers spawned before are doing
Spawnable(i) == handlers[i].pc = "free"

\* server(): a stream arrives with a request and server_handle is spawned
ServerRequest(i, method) ==
    /\ process = "running" /\ role = "server"
    /\ Spawnable(i)
    /\ handlers' = [handlers EXCEPT ![i].pc = "poll", ![i].input = method]
    /\ UNCHANGED process

\* server_handle up to its first await: the method test, then the dial
ServerHandle(i) ==
    /\ process = "running" /\ role = "server"
    /\ handlers[i].pc = "poll"
    /\ IF handlers[i].input # "CONNECT"
       THEN Unimplemented(i, handlers[i].input)
       ELSE /\ handlers' = [handlers EXCEPT ![i].pc = "dialing", ![i].dialed = TRUE,
                                            ![i].log = Append(@, "dial")]
            /\ UNCHANGED process

\* a server_handle that creates the pumps before it sends the response
AfterConnect_PumpsFirst(responded) ==
    IF responded THEN <<"connected", "pumps", "200">> ELSE <<"connected", "pumps">>

\* what server_handle does once TcpStream::connect has resolved to a socket:
\* send_response(200), which may fail, and then the two pumps
AfterConnect(responded) ==
    IF responded THEN <<"connected", "200", "pumps">> ELSE <<"connected", "respond failed">>

\* server_handle: the upstream connection is made; 200 is sent and the pumps
\* start, or send_response fails and the `?` returns its error
ServerConnected(i, responded) ==
    /\ process = "running" /\ role = "server"
    /\ handlers[i].pc = "dialing"
    /\ LET did == AfterConnect(responded) IN
        handlers' = [handlers EXCEPT
            ![i].pc = IF did[Len(did)] = "respond failed" THEN "closed" ELSE "pumping",
            ![i].pumps = \E k \in 1..Len(did) : did[k] = "pumps",
            ![i].log = @ \o did]
    /\ UNCHANGED process

\* server_handle: TcpStream::connect fails and the `?` returns its error
ServerConnectErr(i) ==
    /\ process = "running" /\ role = "server"
    /\ handlers[i].pc = "dialing"
    /\ handlers' = [handlers EXCEPT ![i].pc = "closed", ![i].log = Append(@, "dial failed")]
    /\ UNCHANGED process

\* the joined pumps of a handler return
HandlerDone(i) ==
    /\ process = "running"
    /\ handlers[i].pc = "pumping"
    /\ handlers' = [handlers EXCEPT ![i].pc = "closed"]
    /\ UNCHANGED process

NextLoop ==
    \/ \E i \in 1..MaxHandlers : ClientAccept(i) /\ LoopAlone
    \/ \E i \in 1..MaxHandlers, status \in Statuses : ClientResponse(i, status) /\ LoopAlone
    \/ \E i \in 1..MaxHandlers : ClientRequestErr(i) /\ LoopAlone
    \/ \E i \in 1..MaxHandlers, method \in Methods : ServerRequest(i, method) /\ LoopAlone
    \/ \E i \in 1..MaxHandlers : ServerHandle(i) /\ LoopAlone
    \/ \E i \in 1..MaxHandlers, responded \in BOOLEAN :
           ServerConnected(i, responded) /\ LoopAlone
    \/ \E i \in 1..MaxHandlers : ServerConnectErr(i) /\ LoopAlone
    \/ \E i \in 1..MaxHandlers : HandlerDone(i) /\ LoopAlone

SpecLoop == InitLoop /\ [][NextLoop]_vars

(***************************************************************************)
(* Properties of the handlers                                              *)
(***************************************************************************)
\* C19: once a client handler has been answered with a status other than
\* 200, its tunnel is closed, its pumps were never started, and the process
\* is still running.
C19_NonOkStatus ==
    \A i \in DOMAIN handlers :
        (role = "client" /\ handlers[i].input \notin {"", "200"}) =>
            /\ handlers[i].pc = "closed"
            /\ ~handlers[i].pumps
            /\ process = "running"

\* C20: once a server handler has run on a request whose method is not
\* CONNECT, its stream is reset with RefusedStream, no upstream connection
\* was dialed, and the process is still running.
C20_NonConnect ==
    \A i \in DOMAIN handlers :
        (/\ role = "server"
         /\ handlers[i].input \notin {"", "CONNECT"}
         /\ handlers[i].pc # "poll") =>
            /\ handlers[i].reset = "RefusedStream"
            /\ ~handlers[i].dialed
            /\ process = "running"

\* position of the first event e in a handler's log, 0 when it is not there
FirstAt(log, e) ==
    IF \E k \in 1..Len(log) : log[k] = e
    THEN CHOOSE k \in 1..Len(log) : log[k] = e /\ \A j \in 1..(k - 1) : log[j] # e
    ELSE 0
Did(i, e) == FirstAt(handlers[i].log, e) > 0
Before(i, a, b) == Did(i, a) /\ FirstAt(handlers[i].log, a) < FirstAt(handlers[i].log, b)

\* C21: on every stream of the server the 200 response is sent only after
\* the upstream dial has succeeded and the pumps start only after the 200 was
\* sent; a handler whose dial failed has sent no 200 and is closed; and the
\* step in which a dial fails leaves the process running and every other
\* handler as it was.
C21_DialThenRespond ==
    /\ [](\A i \in DOMAIN handlers :
            /\ Did(i, "200") => Before(i, "connected", "200")
            /\ Did(i, "pumps") => Before(i, "200", "pumps")
            /\ Did(i, "dial failed") => (~Did(i, "200") /\ handlers[i].pc = "closed"))
    /\ [][\A i \in DOMAIN handlers :
            (~Did(i, "dial failed") /\ FirstAt(handlers'[i].log, "dial failed") > 0) =>
                /\ process' = "running"
                /\ \A j \in DOMAIN handlers : j # i => handlers'[j] = handlers[j]]_vars

\* C21 witness: the dial of one stream failed and its handler is closed
\* without a 200, while another stream of the connection got its 200 after
\* its dial and is pumping
C21_Witness ==
    /\ role = "server" /\ process = "running"
    /\ \E i, j \in DOMAIN handlers :
        /\ handlers[i].log = <<"dial", "dial failed">> /\ handlers[i].pc = "closed"
        /\ handlers[j].log = <<"dial", "connected", "200", "pumps">>
        /\ handlers[j].pc = "pumping"

\* C27: while the server runs, a stream that has not been taken yet can be
\* taken and a handler can take its next step whatever the other handlers
\* of the connection are waiting for: an upstream dial or pumps that do not
\* finish delay neither.
C27_OwnTask ==
    (role = "server" /\ process = "running") =>
        \A i \in DOMAIN handlers :
            /\ handlers[i].pc = "free" => ENABLED ServerRequest(i, "CONNECT")
            /\ handlers[i].pc = "poll" => ENABLED ServerHandle(i)
            /\ handlers[i].pc = "dialing" => ENABLED ServerConnected(i, TRUE)
            /\ handlers[i].pc = "pumping" => ENABLED HandlerDone(i)

\* C27 witness: one stream is still dialing and another pumping while a
\* third, taken after them, has run to its end
C27_Witness ==
    /\ role = "server" /\ process = "running"
    /\ \E i, j, k \in DOMAIN handlers :
        /\ handlers[i].pc = "dialing"
        /\ handlers[j].pc = "pumping"
        /\ handlers[k].pc = "closed" /\ handlers[k].pumps

\* C28 as stated: a decode call that returns None leaves the buffer as it
\* was.
C28_AsStated == [][last' = None => src' = src]_vars

\* C28: a decode call that returns None has consumed nothing, or, when the
\* codec had no length pending, exactly the three bytes of the length field,
\* and then it keeps a length pending; the bytes after the length field stay
\* in the buffer.
C28_NoneKeepsPayload ==
    [][last' = None =>
        \/ src' = src /\ (length = None => Len(src) < 3)
        \/ length = None /\ length' # None /\ Len(src) >= 3 /\ src' = Drop(src, 3)]_vars

\* C28 witness: seven bytes of a WINDOW_UPDATE frame arrived, decode returned
\* None, keeps the length 4 pending and left the four bytes after the length
C28_Witness ==
    /\ last = None
    /\ length = Some(4)
    /\ src = <<8, 0, 0, 0>>

\* C29: whenever copy_to_h2 is about to read from its source, the read buffer
\* has at least BUF_SIZE bytes of free capacity.
C29_FreeCapacity == (variant = "io" /\ pcTo = "reading") => rem >= BUF_SIZE

\* C30: copy_from_h2 shuts the destination down for writes at most once, and
\* only when the stream has ended and every byte it delivered has been
\* written; it has completed only if the shutdown was done; and when the
\* stream failed no shutdown was done.
C30_HalfClose ==
    /\ shutdowns <= 1
    /\ shutdowns = 1 => (chunks = <<>> /\ written = Concat(allChunks))
    /\ pcFrom = "done" => shutdowns = 1
    /\ errFrom = "stream" => shutdowns = 0

(***************************************************************************)
(* The connection pool (pool.rs)                                           *)
(*                                                                         *)
(* A connection is "ready" (it accepts a new stream), "busy" (it is at its *)
(* stream limit), "finished" (it closed) or "failed".  The driver          *)
(* H2ClientPool polls every pooled connection; a dispatch                  *)
(* PoolHandle::request takes the front connection or dials one, opens a    *)
(* stream on it and pushes it at the back.  A PoolHandle is alive as long  *)
(* as dispatches are made, so the driver's strong_count test (48-59) never *)
(* completes it here.                                                      *)
(***************************************************************************)
ConnStates == {"ready", "busy", "finished", "failed"}
FreshStates == {"ready", "busy"}

IdleDispatch == [pc |-> "idle", conn |-> 0, err |-> ""]

PoolAlone == UNCHANGED <<codecVars, toVars, fromVars, tunnelVars, role, handlers>>

InitPool ==
    /\ CodecOff /\ ToH2Off /\ FromH2Off /\ TunnelOff
    /\ role = "client" /\ process = "running" /\ handlers = <<>>
    /\ deque = <<>> /\ conns = <<>> /\ task = FALSE /\ notified = FALSE /\ pass = None
    /\ handle = TRUE /\ driver = "live"
    /\ dispatches = [d \in 1..MaxDispatches |-> IdleDispatch]

\* h2c::Client::poll as the driver sees it (pool.rs 66-73)
ClientPoll(st) ==
    CASE st = "finished" -> "Ready"
      [] st = "failed" -> "Err"
      [] OTHER -> "NotReady"

\* VecDeque::remove(idx), idx counted from 1 here
RemoveAt(dq, k) == SubSeq(dq, 1, k - 1) \o SubSeq(dq, k + 1, Len(dq))

\* the loop of H2ClientPool::poll: `for idx in 0..len` over a length read
\* once, `get_mut(idx).unwrap()`, and `remove(idx)` inside the loop
RECURSIVE PollPass(_, _, _, _)
PollPass(dq, idx, len, polled) ==
    IF idx >= len THEN [deque |-> dq, polled |-> polled, panicked |-> FALSE]
    ELSE IF idx + 1 > Len(dq) THEN [deque |-> dq, polled |-> polled, panicked |-> TRUE]
    ELSE LET c == dq[idx + 1]
             remove == ClientPoll(conns[c].state) \in {"Ready", "Err"}
         IN PollPass(IF remove THEN RemoveAt(dq, idx + 1) ELSE dq,
                     idx + 1, len, Append(polled, c))

\* Rc::strong_count(&self.0.pool): the pool future's own PoolHandle, the
\* clones held outside, and the clone `s` of every pending dispatch
Pending(d) == dispatches[d].pc \in {"connecting", "handshaking"}
StrongCount ==
    1 + (IF handle THEN 1 ELSE 0) + Cardinality({d \in DOMAIN dispatches : Pending(d)})

\* the sum of num_wired_streams over the deque: the streams dispatches opened
\* on pooled connections and that have not ended
Wired(c) == Cardinality({d \in DOMAIN dispatches :
                            dispatches[d].pc = "done" /\ dispatches[d].conn = c})
RECURSIVE WiredStreams(_)
WiredStreams(dq) == IF dq = <<>> THEN 0 ELSE Wired(Head(dq)) + WiredStreams(Tail(dq))

\* the test that lets H2ClientPool::poll return Ready
Completes == StrongCount = 1 /\ WiredStreams(deque) = 0

\* H2ClientPool::poll, one whole call: park the task if none is parked,
\* return Ready when the pool is not used any more, else poll the
\* connections and return NotReady
DriverPoll ==
    /\ process = "running"
    /\ driver = "live"
    /\ \/ ~task
       \/ notified
       \/ \E k \in 1..Len(deque) : conns[deque[k]].polled
    /\ IF Completes
       THEN /\ driver' = "done"
            /\ pass' = None
            /\ UNCHANGED <<deque, conns, process>>
       ELSE /\ LET r == PollPass(deque, 0, Len(deque), <<>>)
               IN /\ deque' = r.deque
                  /\ conns' = [c \in DOMAIN conns |->
                                  IF \E k \in 1..Len(r.polled) : r.polled[k] = c
                                  THEN [conns[c] EXCEPT !.polled = TRUE] ELSE conns[c]]
                  /\ pass' = Some([before |-> deque, polled |-> r.polled])
                  /\ process' = IF r.panicked THEN "panicked" ELSE "running"
            /\ UNCHANGED driver
    /\ task' = TRUE
    /\ notified' = FALSE
    /\ UNCHANGED <<dispatches, handle>>

\* Client::poll_ready as a dispatch sees it; a closed connection may answer
\* with its error or still accept the call
PollReady(st) ==
    CASE st = "ready" -> {"Ready"}
      [] st = "busy" -> {"NotReady"}
      [] st = "failed" -> {"Err"}
      [] OTHER -> {"Err", "Ready"}

\* client.request(request, end_of_stream) on a connection that said Ready
RequestOutcomes(st) == IF st = "ready" THEN {"Ok", "Err"} ELSE {"Err"}

\* s.pool.borrow_mut().push_back(client)
PushBack_Front(dq, c) == <<c>> \o dq
PushBack(dq, c) == Append(dq, c)

\* what a failed dial leaves of the deque: the `?` returns before s.pool is
\* touched again
AfterDialError_Cleared(dq) == <<>>
AfterDialError(dq) == dq

\* the deque after `client.request(..)?` returned its error: push_back is not
\* reached and client is dropped
AfterRequestError_PushedBack(dq, c) == Append(dq, c)
AfterRequestError(dq, c) == dq

\* the rest of a dispatch once it holds connection c (pop 121-125,
\* request 90-95); dq is the deque without c
Open(d, c, st, dq) ==
    \E r \in PollReady(st) :
        IF r # "Ready"
        THEN /\ process' = "panicked"
             /\ deque' = dq
             /\ dispatches' = [dispatches EXCEPT ![d].pc = "panicked", ![d].conn = c]
        ELSE \E o \in RequestOutcomes(st) :
                 /\ process' = "running"
                 /\ IF o = "Ok"
                    THEN /\ deque' = PushBack(dq, c)
                         /\ dispatches' = [dispatches EXCEPT ![d].pc = "done", ![d].conn = c]
                    ELSE /\ deque' = AfterRequestError(dq, c)
                         /\ dispatches' = [dispatches EXCEPT ![d].pc = "failed",
                                                      ![d].conn = c,
                                                      ![d].err = "request"]

\* s.pool.borrow_mut().pop_front(): what is left in the deque
PopFront_Peek(dq) == dq
PopFront(dq) == Tail(dq)

\* the dispatches are made one after the other: the next one to be polled
\* for the first time is the first idle one
Startable(d) ==
    /\ handle
    /\ dispatches[d].pc = "idle"
    /\ \A e \in 1..(d - 1) : dispatches[e].pc # "idle"

\* PoolHandle::request on a pool that holds a connection: pop_front gives it
\* and nothing is awaited before the dispatch ends
DispatchPop(d) ==
    /\ process = "running"
    /\ Startable(d)
    /\ deque # <<>>
    /\ Open(d, Head(deque), conns[Head(deque)].state, PopFront(deque))
    /\ pass' = None
    /\ UNCHANGED <<conns, task, notified>>
    /\ UNCHANGED driverVars

\* the None arm of pop: pop_front found the deque empty, whatever other
\* dispatches are doing
DialNeeded_NonePending == deque = <<>> /\ \A e \in DOMAIN dispatches : ~Pending(e)
DialNeeded == deque = <<>>

\* PoolHandle::request on an empty pool: pop awaits new_client
DispatchDial(d) ==
    /\ process = "running"
    /\ Startable(d)
    /\ DialNeeded
    /\ Len(conns) + Cardinality({e \in DOMAIN dispatches : Pending(e)}) < MaxDispatches
    /\ dispatches' = [dispatches EXCEPT ![d].pc = "connecting"]
    /\ pass' = None
    /\ UNCHANGED <<process, deque, conns, task, notified>>
    /\ UNCHANGED driverVars

\* the connection the handshake returns
NewConn(st) == [state |-> st, polled |-> FALSE]

\* new_client: TcpStream::connect succeeds, the parked task (if any) is
\* notified, and the handshake starts; it completes within the same poll
\* (immediate) or stays pending
Connected(d, immediate, st) ==
    /\ process = "running"
    /\ dispatches[d].pc = "connecting"
    /\ notified' = (notified \/ task)
    /\ IF immediate
       THEN /\ conns' = Append(conns, NewConn(st))
            /\ Open(d, Len(conns) + 1, st, deque)
       ELSE /\ dispatches' = [dispatches EXCEPT ![d].pc = "handshaking"]
            /\ UNCHANGED <<process, deque, conns>>
    /\ pass' = None
    /\ UNCHANGED task
    /\ UNCHANGED driverVars

\* new_client: TcpStream::connect fails
ConnectErr(d) ==
    /\ process = "running"
    /\ dispatches[d].pc = "connecting"
    /\ dispatches' = [dispatches EXCEPT ![d].pc = "failed", ![d].err = "connect"]
    /\ deque' = AfterDialError(deque)
    /\ pass' = None
    /\ UNCHANGED <<process, conns, task, notified>>
    /\ UNCHANGED driverVars

\* new_client: a pending handshake completes, then pop and request go on
Handshaken(d, st) ==
    /\ process = "running"
    /\ dispatches[d].pc = "handshaking"
    /\ conns' = Append(conns, NewConn(st))
    /\ Open(d, Len(conns) + 1, st, deque)
    /\ pass' = None
    /\ UNCHANGED <<task, notified>>
    /\ UNCHANGED driverVars

\* new_client: the handshake fails
HandshakeErr(d) ==
    /\ process = "running"
    /\ dispatches[d].pc = "handshaking"
    /\ dispatches' = [dispatches EXCEPT ![d].pc = "failed", ![d].err = "handshake"]
    /\ deque' = AfterDialError(deque)
    /\ pass' = None
    /\ UNCHANGED <<process, conns, task, notified>>
    /\ UNCHANGED driverVars

\* the peer or the network changes what a pooled connection answers
ConnChange(c, st) ==
    /\ process = "running"
    /\ c \in DOMAIN conns
    /\ \E k \in 1..Len(deque) : deque[k] = c
    /\ conns[c].state \in FreshStates
    /\ conns[c].state # st
    /\ conns' = [conns EXCEPT ![c].state = st]
    /\ pass' = None
    /\ UNCHANGED <<process, deque, task, notified, dispatches>>
    /\ UNCHANGED driverVars

NextPool ==
    \/ DriverPoll /\ PoolAlone
    \/ \E d \in 1..MaxDispatches : DispatchPop(d) /\ PoolAlone
    \/ \E d \in 1..MaxDispatches : DispatchDial(d) /\ PoolAlone
    \/ \E d \in 1..MaxDispatches, immediate \in BOOLEAN, st \in FreshStates :
           Connected(d, immediate, st) /\ PoolAlone
    \/ \E d \in 1..MaxDispatches : ConnectErr(d) /\ PoolAlone
    \/ \E d \in 1..MaxDispatches, st \in FreshStates : Handshaken(d, st) /\ PoolAlone
    \/ \E d \in 1..MaxDispatches : HandshakeErr(d) /\ PoolAlone
    \/ \E c \in 1..MaxDispatches, st \in ConnStates : ConnChange(c, st) /\ PoolAlone

SpecPool == InitPool /\ [][NextPool]_vars

\* a step of dispatch d
DispatchStep(d) ==
    \/ DispatchPop(d)
    \/ DispatchDial(d)
    \/ \E immediate \in BOOLEAN, st \in FreshStates : Connected(d, immediate, st)
    \/ ConnectErr(d)
    \/ \E st \in FreshStates : Handshaken(d, st)
    \/ HandshakeErr(d)

\* the future of a dispatch that ended is dropped, and client_handle makes
\* its next dispatch for the next accepted connection
Recycle(d) ==
    /\ process = "running"
    /\ dispatches[d].pc \in {"done", "failed"}
    /\ dispatches' = [dispatches EXCEPT ![d] = IdleDispatch]
    /\ pass' = None
    /\ UNCHANGED <<process, deque, conns, task, notified, driverVars>>

\* the pool with dispatches made again and again
NextPoolFair ==
    \/ DriverPoll /\ PoolAlone
    \/ \E d \in 1..MaxDispatches : DispatchPop(d) /\ PoolAlone
    \/ \E d \in 1..MaxDispatches : DispatchDial(d) /\ PoolAlone
    \/ \E d \in 1..MaxDispatches, immediate \in BOOLEAN, st \in FreshStates :
           Connected(d, immediate, st) /\ PoolAlone
    \/ \E d \in 1..MaxDispatches : ConnectErr(d) /\ PoolAlone
    \/ \E d \in 1..MaxDispatches, st \in FreshStates : Handshaken(d, st) /\ PoolAlone
    \/ \E d \in 1..MaxDispatches : HandshakeErr(d) /\ PoolAlone
    \/ \E c \in 1..MaxDispatches, st \in ConnStates : ConnChange(c, st) /\ PoolAlone
    \/ \E d \in 1..MaxDispatches : Recycle(d) /\ PoolAlone

\* the event loop polls the driver task whenever it is woken, every dispatch
\* is made and polled, every dial comes to an end, and dispatches never stop
\* coming
SpecPoolFair ==
    /\ InitPool /\ [][NextPoolFair]_vars
    /\ WF_vars(DriverPoll /\ PoolAlone)
    /\ \A d \in 1..MaxDispatches : WF_vars(DispatchStep(d) /\ PoolAlone)
    /\ \A d \in 1..MaxDispatches : WF_vars(Recycle(d) /\ PoolAlone)

\* the last PoolHandle clone held outside the pool future is dropped
DropHandle ==
    /\ process = "running"
    /\ handle
    /\ handle' = FALSE
    /\ pass' = None
    /\ UNCHANGED <<process, deque, conns, task, notified, dispatches, driver>>

\* the stream a dispatch opened ends
StreamDone(d) ==
    /\ process = "running"
    /\ dispatches[d].pc = "done"
    /\ dispatches' = [dispatches EXCEPT ![d].pc = "closed"]
    /\ pass' = None
    /\ UNCHANGED <<process, deque, conns, task, notified, driverVars>>

\* the pool with its handles being dropped and its streams ending
NextDriver ==
    \/ DriverPoll /\ PoolAlone
    \/ \E d \in 1..MaxDispatches : DispatchPop(d) /\ PoolAlone
    \/ \E d \in 1..MaxDispatches : DispatchDial(d) /\ PoolAlone
    \/ \E d \in 1..MaxDispatches, immediate \in BOOLEAN, st \in FreshStates :
           Connected(d, immediate, st) /\ PoolAlone
    \/ \E d \in 1..MaxDispatches : ConnectErr(d) /\ PoolAlone
    \/ \E d \in 1..MaxDispatches, st \in FreshStates : Handshaken(d, st) /\ PoolAlone
    \/ \E d \in 1..MaxDispatches : HandshakeErr(d) /\ PoolAlone
    \/ \E c \in 1..MaxDispatches, st \in ConnStates : ConnChange(c, st) /\ PoolAlone
    \/ DropHandle /\ PoolAlone
    \/ \E d \in 1..MaxDispatches : StreamDone(d) /\ PoolAlone

SpecDriver == InitPool /\ [][NextDriver]_vars

(***************************************************************************)
(* Properties of the pool                                                  *)
(***************************************************************************)
DialErrors == {"connect", "handshake"}

\* dispatch d ends in this step without a connection having been made
DialFails(d) ==
    /\ dispatches[d].pc \in {"connecting", "handshaking"}
    /\ dispatches'[d].pc = "failed"
    /\ conns' = conns

\* C22: when the dial of a dispatch fails, at the TCP connect or at the
\* handshake, the dispatch fails with the error of that step, the deque and
\* the process are as before, and as long as a dispatch failed that way the
\* next dispatch on an empty pool can dial again.
C22_DialError ==
    /\ [][\A d \in DOMAIN dispatches :
            DialFails(d) =>
                /\ dispatches'[d].err =
                       (IF dispatches[d].pc = "connecting" THEN "connect" ELSE "handshake")
                /\ deque' = deque
                /\ process' = process]_vars
    /\ [](\A d, e \in DOMAIN dispatches :
            (/\ dispatches[d].err \in DialErrors
             /\ process = "running"
             /\ deque = <<>>
             /\ Startable(e)) => ENABLED DispatchDial(e))

\* a handshake failed while another dispatch's connection was pooled, a
\* connect failed, and a later dispatch dialed on the empty pool and opened
\* its stream
C22_Witness ==
    /\ process = "running"
    /\ \E d, e \in DOMAIN dispatches :
           /\ dispatches[d].err = "handshake"
           /\ dispatches[e].err = "connect"
    /\ dispatches[MaxDispatches].pc = "done"
    /\ deque = <<dispatches[MaxDispatches].conn>>

\* C23: no dispatch ever ends in a crash: each one is waiting, or has opened
\* its stream, or has failed with an error.
C23_NeverCrashes ==
    \A d \in DOMAIN dispatches :
        dispatches[d].pc \in {"idle", "connecting", "handshaking", "done", "failed"}

\* C24: the connection a dispatch opened its stream on is at the tail of the
\* deque, and a dispatch that found the pool non-empty used the front
\* connection and moved it to the tail, the others keeping their order.
C24_RoundRobin ==
    [][\A d \in DOMAIN dispatches :
          (dispatches[d].pc # "done" /\ dispatches'[d].pc = "done") =>
              LET c == dispatches'[d].conn
              IN /\ deque' # <<>>
                 /\ deque'[Len(deque')] = c
                 /\ dispatches[d].pc = "idle" =>
                        (c = Head(deque) /\ deque' = Append(Tail(deque), c))]_vars

\* two ready connections are pooled, and a dispatch took the front one and
\* left it behind the other
C24_Witness ==
    /\ process = "running"
    /\ deque = <<2, 1>>
    /\ conns[1].state = "ready" /\ conns[2].state = "ready"
    /\ dispatches[3].pc = "done" /\ dispatches[3].conn = 1

\* the connections of dq the driver keeps
Kept(dq) == SelectSeq(dq, LAMBDA c : ClientPoll(conns[c].state) = "NotReady")

\* C25: after a driver pass the process is running, the pass polled the
\* connections that were pooled, each once and in order, and the deque holds
\* those of them that are neither finished nor failed, in their order.
C25_PollPass ==
    pass # None =>
        /\ process = "running"
        /\ pass.val.polled = pass.val.before
        /\ deque = Kept(pass.val.before)

\* dispatch d's TCP connect succeeds in this step
DialConnects(d) ==
    /\ dispatches[d].pc = "connecting"
    /\ dispatches'[d].pc # "connecting"
    /\ ~(dispatches'[d].pc = "failed" /\ dispatches'[d].err = "connect")

\* C26: the step in which a dial's connect succeeds leaves the driver
\* notified, and whenever a pooled connection has not been polled by the
\* driver yet, the driver is notified.
C26_DriverNotified ==
    /\ [][\A d \in DOMAIN dispatches : DialConnects(d) => notified']_vars
    /\ [](process = "running" =>
            \A k \in 1..Len(deque) : ~conns[deque[k]].polled => notified)

(***************************************************************************)
(* Properties of the decoder's limits                                      *)
(***************************************************************************)
\* a SETTINGS frame is among fs
AnySettings(fs) ==
    \E i \in 1..Len(fs) :
        \/ fs[i].type = "Settings"
        \/ fs[i].type = "Raw" /\ fs[i].frame_type = 4

\* C31: as long as no SETTINGS frame was sent or received, MAX_FRAME_SIZE is
\* its initial value, and a frame that decode returns has a payload no longer
\* than that.
C31_MaxFrameSize ==
    (/\ ~AnySettings(sent)
     /\ last.tag = "Some"
     /\ seen # None) => Len(seen.val.payload) <= U24_INITIAL

\* C34: no call of decode panics: each returns a frame, None or an error.
C34_NeverPanics == last.tag \in {"Idle", "Some", "None", "Err"}

\* decode returned a frame and was called again on what followed it
C34_Witness ==
    /\ Len(got) = 2
    /\ got[1].tag = "Some"
    /\ got[2].tag = "Err"
    /\ last = got[2]

\* H2ClientPool::poll ran in this step
Polled == pass' # None \/ driver' # driver

\* C32: a poll of the driver returns Ready exactly when no PoolHandle clone
\* exists outside the pool future and the pooled connections have no wired
\* stream; in every other state it returns NotReady.
C32_Completion ==
    [][Polled =>
          /\ (driver' = "done") <=> (StrongCount = 1 /\ WiredStreams(deque) = 0)
          /\ driver' = "live" => process' = "running"]_vars

InDeque(c) == \E k \in 1..Len(deque) : deque[k] = c

\* C33: a connection that is in the deque is eventually polled by the driver,
\* unless it leaves the deque or the process ends before.
C33_EventuallyPolled ==
    \A c \in 1..MaxDispatches :
        [](InDeque(c) => <>(\/ c \in DOMAIN conns /\ conns[c].polled
                            \/ ~InDeque(c)
                            \/ process # "running"))

\* what decode can return for the whole encoding of raw given to a fresh codec
Whole(raw) == {FrameDecode(None, RawBytes(raw), st).ret : st \in Stale(storage)}

\* C35: while bytes of a valid frame are still to arrive, every decode of the
\* fresh codec has returned None; once all have arrived, what decode returns
\* is what it returns for the whole encoding at once.
C35_Chunked ==
    (/\ Len(sent) = 1
     /\ sent[1].type = "Raw"
     /\ \E raw \in PartFrames, k \in 0..(9 + MaxRawLen) : sent[1] = Arrived(raw, k)) =>
        IF "arrived" \in DOMAIN sent[1]
        THEN last.tag \in {"Idle", "None"} /\ got = <<>>
        ELSE last.tag \in {"Some", "Err"} => (Len(got) = 1 /\ got[1] \in Whole(sent[1]))

\* C36: no connection is twice in the deque, every entry of the deque is a
\* connection that was dialed, and a dispatch that is suspended (its dial is
\* pending) holds no connection: a connection outside the deque is always
\* back in it or dropped by the end of the step that took it.
C36_HeldOrPooled ==
    /\ \A i, j \in 1..Len(deque) : i # j => deque[i] # deque[j]
    /\ \A i \in 1..Len(deque) : deque[i] \in DOMAIN conns
    /\ \A d \in DOMAIN dispatches : Pending(d) => dispatches[d].conn = 0
    /\ \A d \in DOMAIN dispatches :
           (process = "running" /\ dispatches[d].pc = "failed") =>
               ~InDeque(dispatches[d].conn)

\* two pooled connections, both polled by the driver, after a dispatch took
\* the front one and pushed it back while another dial is pending
C36_Witness ==
    /\ process = "running"
    /\ deque = <<2, 1>>
    /\ conns[1].polled /\ conns[2].polled
    /\ \E d \in DOMAIN dispatches : dispatches[d].pc = "done" /\ dispatches[d].conn = 1

\* C37: a dispatch that starts while the deque is empty can dial, whatever
\* dials are pending; and when each of the dispatches has dialed a
\* connection of its own and opened its stream, all of these connections are
\* in the deque as long as none has closed.
C37_OwnDials ==
    /\ \A d \in DOMAIN dispatches :
           (process = "running" /\ Startable(d) /\ deque = <<>>) => ENABLED DispatchDial(d)
    /\ (/\ \A d \in DOMAIN dispatches : dispatches[d].pc = "done"
        /\ Len(conns) = MaxDispatches
        /\ \A c \in DOMAIN conns : conns[c].state \in FreshStates) =>
            /\ Len(deque) = MaxDispatches
            /\ \A c \in DOMAIN conns : InDeque(c)

\* every dispatch started on the empty deque, dialed its own connection and
\* opened its stream on it
C37_Witness ==
    /\ process = "running"
    /\ Len(deque) = MaxDispatches
    /\ \A d \in DOMAIN dispatches : dispatches[d].pc = "done"
    /\ \A d, e \in DOMAIN dispatches : d # e => dispatches[d].conn # dispatches[e].conn

\* dispatch d ends in this step with the error of client.request
RequestFails(d) ==
    /\ dispatches[d].pc # "failed"
    /\ dispatches'[d].pc = "failed"
    /\ dispatches'[d].err = "request"

\* C38: in the step in which opening the stream fails, the dispatch ends
\* with that error, the connection it had acquired is not in the deque
\* afterwards, and the deque is otherwise as it was: without its front when
\* the connection was taken from it, unchanged when it was freshly dialed.
C38_RequestError ==
    [][\A d \in DOMAIN dispatches :
          RequestFails(d) =>
              LET c == dispatches'[d].conn
              IN /\ c \in DOMAIN conns'
                 /\ \A k \in 1..Len(deque') : deque'[k] # c
                 /\ IF dispatches[d].pc = "idle"
                    THEN c = Head(deque) /\ deque' = Tail(deque)
                    ELSE deque' = deque
                 /\ process' = process]_vars

\* the front connection of a pool of two failed to open a stream and is
\* gone; the other one is still pooled
C38_Witness ==
    /\ process = "running"
    /\ deque = <<2>>
    /\ conns[1].state = "ready"
    /\ \E d \in DOMAIN dispatches :
           /\ dispatches[d].pc = "failed"
           /\ dispatches[d].err = "request"
           /\ dispatches[d].conn = 1
    /\ \E d \in DOMAIN dispatches : dispatches[d].pc = "done" /\ dispatches[d].conn = 1

====
